---- MODULE Spec2Model ----
(***************************************************************************)
(* Model of GeographicLib's TransverseMercator (src/src/                   *)
(* TransverseMercator.cpp): the constructor (validation and coefficient    *)
(* generation), Forward and Reverse.                                       *)
(*                                                                         *)
(* Arithmetic.  The type `real' is modelled by exact values: a value is    *)
(* NaN, a signed infinity, or  sg * (n/d) * t  where n/d is a rational     *)
(* held in arbitrary precision and t is a token.  The token is 1 for a     *)
(* rational, "pi" for a rational multiple of pi, and otherwise names the   *)
(* program variable and the inputs of a transcendental quantity whose      *)
(* value is not a rational: two values with the same token and the same    *)
(* rational are the same real.  Zeros are signed.  Rounding is not         *)
(* modelled.                                                               *)
(***************************************************************************)
EXTENDS Integers, Sequences, FiniteSets, TLC

(***************************************************************************)
(* Arbitrary-precision naturals: little-endian limbs, no high zero limb.   *)
(***************************************************************************)
Base == 10 * 1000

RECURSIVE NOfInt(_)
NOfInt(i) == IF i = 0 THEN <<>> ELSE <<i % Base>> \o NOfInt(i \div Base)

RECURSIVE NTrim(_)
NTrim(s) ==
  IF s = <<>> THEN <<>>
  ELSE IF s[Len(s)] = 0 THEN NTrim(SubSeq(s, 1, Len(s) - 1)) ELSE s

NHead(s) == IF s = <<>> THEN 0 ELSE Head(s)
NTail(s) == IF s = <<>> THEN <<>> ELSE Tail(s)

RECURSIVE NAddC(_, _, _)
NAddC(a, b, c) ==
  IF a = <<>> /\ b = <<>> THEN (IF c = 0 THEN <<>> ELSE <<c>>)
  ELSE LET s == NHead(a) + NHead(b) + c
       IN  <<s % Base>> \o NAddC(NTail(a), NTail(b), s \div Base)

NAdd(a, b) == NAddC(a, b, 0)

RECURSIVE NSubB(_, _, _)
NSubB(a, b, br) ==
  IF a = <<>> THEN <<>>
  ELSE LET s == NHead(a) - NHead(b) - br
       IN  IF s < 0 THEN <<s + Base>> \o NSubB(NTail(a), NTail(b), 1)
           ELSE <<s>> \o NSubB(NTail(a), NTail(b), 0)

\* a - b for a >= b
NSub(a, b) == NTrim(NSubB(a, b, 0))

RECURSIVE NCmpAt(_, _, _)
NCmpAt(a, b, i) ==
  IF i = 0 THEN 0
  ELSE IF a[i] < b[i] THEN -1
  ELSE IF a[i] > b[i] THEN 1
  ELSE NCmpAt(a, b, i - 1)

\* -1, 0, 1 as a < b, a = b, a > b
NCmp(a, b) ==
  IF Len(a) < Len(b) THEN -1
  ELSE IF Len(a) > Len(b) THEN 1
  ELSE NCmpAt(a, b, Len(a))

RECURSIVE NMulSC(_, _, _)
NMulSC(a, s, c) ==
  IF a = <<>> THEN NOfInt(c)
  ELSE LET p == Head(a) * s + c
       IN  <<p % Base>> \o NMulSC(Tail(a), s, p \div Base)

\* a * s for a limb-sized s
NMulS(a, s) == IF s = 0 THEN <<>> ELSE NMulSC(a, s, 0)

NShift(a) == IF a = <<>> THEN <<>> ELSE <<0>> \o a

RECURSIVE NMul(_, _)
NMul(a, b) ==
  IF a = <<>> \/ b = <<>> THEN <<>>
  ELSE NAdd(NMulS(a, Head(b)), NShift(NMul(a, Tail(b))))

\* quotient and remainder of a by a small s > 0
RECURSIVE NDivRem(_, _)
NDivRem(a, s) ==
  IF a = <<>> THEN [q |-> <<>>, r |-> 0]
  ELSE LET hi  == NDivRem(Tail(a), s)
           cur == hi.r * Base + Head(a)
       IN  [q |-> <<cur \div s>> \o hi.q, r |-> cur % s]

NDivS(a, s) == NTrim(NDivRem(a, s).q)
NModS(a, s) == NDivRem(a, s).r

NOne == <<1>>

(***************************************************************************)
(* Fractions n/d in lowest terms.  Every divisor the program uses is a     *)
(* product of the primes below, so dividing out these primes reduces.      *)
(***************************************************************************)
Primes == <<2, 3, 5, 7, 11, 13>>

RECURSIVE QReduceBy(_, _, _)
QReduceBy(n, d, p) ==
  IF n # <<>> /\ NModS(n, p) = 0 /\ NModS(d, p) = 0
  THEN QReduceBy(NDivS(n, p), NDivS(d, p), p)
  ELSE [n |-> n, d |-> d]

RECURSIVE QReduceFrom(_, _, _)
QReduceFrom(n, d, i) ==
  IF i > Len(Primes) THEN [n |-> n, d |-> d]
  ELSE LET r == QReduceBy(n, d, Primes[i])
       IN  QReduceFrom(r.n, r.d, i + 1)

QReduce(n, d) == IF n = <<>> THEN [n |-> <<>>, d |-> NOne] ELSE QReduceFrom(n, d, 1)

\* compare n1/d1 with n2/d2
QCmp(n1, d1, n2, d2) == NCmp(NMul(n1, d2), NMul(n2, d1))

(***************************************************************************)
(* Values of type real.                                                    *)
(***************************************************************************)
Tok(nm, a, ps) == [a |-> a, nm |-> nm, ps |-> ps]
Unit  == Tok("1", <<>>, TRUE)
PiTok == Tok("pi", <<>>, TRUE)

NaN == [n |-> <<>>, d |-> NOne, cl |-> "nan", sg |-> 1, t |-> Unit]
Infinity(s) == [n |-> <<>>, d |-> NOne, cl |-> "inf", sg |-> s, t |-> Unit]

\* sg * (r.n/r.d) * t; a zero keeps t only when its sign is the sign of t
MkNum(s, r, t) ==
  [n |-> r.n, d |-> r.d, cl |-> "num", sg |-> s, t |-> IF r.n = <<>> /\ t.ps THEN Unit ELSE t]

Num(s, n, d, t) == MkNum(s, QReduce(n, d), t)

Zero(s) == [n |-> <<>>, d |-> NOne, cl |-> "num", sg |-> s, t |-> Unit]
IntR(i) ==
  [n |-> NOfInt(IF i < 0 THEN -i ELSE i), d |-> NOne, cl |-> "num",
   sg |-> IF i < 0 THEN -1 ELSE 1, t |-> Unit]
Frac(p, q) == Num(IF p < 0 THEN -1 ELSE 1, NOfInt(IF p < 0 THEN -p ELSE p), NOfInt(q), Unit)
\* a quantity that is not a rational: the value named nm at inputs a
Opq(s, nm, a, ps) == [n |-> NOne, d |-> NOne, cl |-> "num", sg |-> s, t |-> Tok(nm, a, ps)]
\* s * (p/q) * pi for digits p, q in lowest terms
PiFrac(s, p, q) == [n |-> <<p>>, d |-> <<q>>, cl |-> "num", sg |-> s, t |-> PiTok]
PiR == PiFrac(1, 1, 1)
HalfPi == PiFrac(1, 1, 2)

\* keys of tokens: the encoding of a rational, or a rational multiple of pi,
\* as integers
Enc(x) ==
  <<(CASE x.cl = "nan" -> 0 [] x.cl = "inf" -> 1 [] x.cl = "num" -> 2 [] OTHER -> 3),
    x.sg, (IF x.t = PiTok THEN 1 ELSE 0), Len(x.n)>> \o x.n \o x.d

\* the token of f(|x|) for a function f named nm: it names the operand
FnTok(nm, x, ps) ==
  Tok(nm \o "(" \o x.t.nm \o ")", <<Len(x.t.a), Len(x.n)>> \o x.t.a \o x.n \o x.d, ps)

isnan(x) == x.cl = "nan"
isfinite(x) == x.cl = "num"
IsZero(x) == x.cl = "num" /\ x.n = <<>>
signbit(x) == x.cl # "nan" /\ x.sg = -1

RNeg(x) == IF x.cl = "nan" THEN x ELSE [x EXCEPT !.sg = -x.sg]
\* x * s for an int s in {-1, 1}
RSgn(x, s) == IF s < 0 THEN RNeg(x) ELSE x

fabs(x) ==
  IF x.cl = "nan" THEN x
  ELSE IF x.t.ps THEN [x EXCEPT !.sg = 1]
  ELSE [x EXCEPT !.sg = 1, !.t = Tok("|" \o x.t.nm \o "|", x.t.a, TRUE)]

TokMul(t1, t2, nm, cx) ==
  IF t1 = Unit THEN t2
  ELSE IF t2 = Unit THEN t1
  ELSE Tok(nm, cx, (t1.ps /\ t2.ps) \/ t1 = t2)

TokDiv(t1, t2, nm, cx) ==
  IF t2 = Unit THEN t1
  ELSE IF t1 = t2 THEN Unit
  ELSE Tok(nm, cx, t1.ps /\ t2.ps)

RMul(x, y, nm, cx) ==
  IF x.cl = "nan" \/ y.cl = "nan" THEN NaN
  ELSE IF x.cl = "inf" \/ y.cl = "inf"
       THEN (IF IsZero(x) \/ IsZero(y) THEN NaN ELSE Infinity(x.sg * y.sg))
  ELSE Num(x.sg * y.sg, NMul(x.n, y.n), NMul(x.d, y.d), TokMul(x.t, y.t, nm, cx))

RDiv(x, y, nm, cx) ==
  IF x.cl = "nan" \/ y.cl = "nan" THEN NaN
  ELSE IF x.cl = "inf" THEN (IF y.cl = "inf" THEN NaN ELSE Infinity(x.sg * y.sg))
  ELSE IF y.cl = "inf" THEN Zero(x.sg * y.sg)
  ELSE IF IsZero(y) THEN (IF IsZero(x) THEN NaN ELSE Infinity(x.sg * y.sg))
  ELSE Num(x.sg * y.sg, NMul(x.n, y.d), NMul(x.d, y.n), TokDiv(x.t, y.t, nm, cx))

\* x + y for finite nonzero x and y with one token, from the cross products
\* p, q of their rationals and the order c of p and q
RAddSame(x, y, p, q, c) ==
  Num(IF x.sg = y.sg THEN x.sg ELSE IF c = 0 THEN 1 ELSE IF c > 0 THEN x.sg ELSE y.sg,
      IF x.sg = y.sg THEN NAdd(p, q) ELSE IF c >= 0 THEN NSub(p, q) ELSE NSub(q, p),
      NMul(x.d, y.d),
      IF x.sg # y.sg /\ c = 0 THEN Unit ELSE x.t)

RAddCross(x, y, p, q) == RAddSame(x, y, p, q, NCmp(p, q))

RAdd(x, y, nm, cx) ==
  IF x.cl = "nan" \/ y.cl = "nan" THEN NaN
  ELSE IF x.cl = "inf" THEN (IF y.cl = "inf" /\ y.sg # x.sg THEN NaN ELSE x)
  ELSE IF y.cl = "inf" THEN y
  ELSE IF IsZero(x) /\ IsZero(y)
       THEN (IF x.t = y.t
             THEN (IF x.sg = y.sg THEN x ELSE Zero(1))
             ELSE [n |-> <<>>, d |-> NOne, cl |-> "num", sg |-> 1, t |-> Tok(nm, cx, FALSE)])
  ELSE IF IsZero(x) THEN y
  ELSE IF IsZero(y) THEN x
  ELSE IF x.t = y.t THEN RAddCross(x, y, NMul(x.n, y.d), NMul(y.n, x.d))
  ELSE Opq(IF x.t.ps /\ y.t.ps /\ x.sg = y.sg THEN x.sg ELSE 1, nm, cx,
           x.t.ps /\ y.t.ps /\ x.sg = y.sg)

RSub(x, y, nm, cx) == RAdd(x, RNeg(y), nm, cx)

\* 333/106 < pi < 355/113
PiLo == [n |-> <<333>>, d |-> <<106>>]
PiHi == [n |-> <<355>>, d |-> <<113>>]

\* the order of n/d and (m/e) * pi: -1, 1, or 2 when the bounds do not tell
PiCmp(n, d, m, e) ==
  IF QCmp(n, d, NMul(m, PiLo.n), NMul(e, PiLo.d)) <= 0 THEN -1
  ELSE IF QCmp(n, d, NMul(m, PiHi.n), NMul(e, PiHi.d)) >= 0 THEN 1
  ELSE 2

\* s * c for an order c
Ordered(s, c) == IF c = 2 THEN 2 ELSE s * c

\* the order of |x| and |y|, finite and not zero
MagCmp(x, y) ==
  IF x.t = y.t THEN QCmp(x.n, x.d, y.n, y.d)
  ELSE IF x.t = Unit /\ y.t = PiTok THEN PiCmp(x.n, x.d, y.n, y.d)
  ELSE IF x.t = PiTok /\ y.t = Unit THEN Ordered(-1, PiCmp(y.n, y.d, x.n, x.d))
  ELSE 2

Sgn(x) == IF IsZero(x) THEN 0 ELSE x.sg

RCmpSigned(x, y, sx, sy) ==
  IF (sx # 0 /\ ~x.t.ps) \/ (sy # 0 /\ ~y.t.ps) THEN 2
  ELSE IF sx # sy THEN (IF sx < sy THEN -1 ELSE 1)
  ELSE IF sx = 0 THEN 0
  ELSE IF x.cl = "inf" \/ y.cl = "inf"
       THEN (IF x.cl = y.cl THEN 0 ELSE IF x.cl = "inf" THEN sx ELSE -sx)
  ELSE Ordered(sx, MagCmp(x, y))

\* the order of two values that are not NaN: -1, 0, 1; 2 when it is not known
RCmp(x, y) == RCmpSigned(x, y, Sgn(x), Sgn(y))

RLt(x, y) == x.cl # "nan" /\ y.cl # "nan" /\ RCmp(x, y) = -1
RGt(x, y) == RLt(y, x)
REq(x, y) == x.cl # "nan" /\ y.cl # "nan" /\ RCmp(x, y) = 0
\* x != y as C++ evaluates it: true for NaN, and for a generic (token) value
\* against a different one
RNe(x, y) == ~REq(x, y)

(***************************************************************************)
(* <cmath> on these values: exact where the result is a rational or a      *)
(* rational multiple of pi, a token elsewhere.                             *)
(***************************************************************************)
\* an odd function with f(0) = 0 and limit lim at infinity
OddFn(x, lim, nm, cx) ==
  IF x.cl = "nan" THEN NaN
  ELSE IF x.cl = "inf" THEN RSgn(lim, x.sg)
  ELSE IF IsZero(x) THEN x
  ELSE Opq(x.sg, nm, cx, x.t.ps)

sinh(x, nm, cx)  == OddFn(x, Infinity(1), nm, cx)
asinh(x, nm, cx) == OddFn(x, Infinity(1), nm, cx)
tanh(x, nm, cx)  == OddFn(x, IntR(1), nm, cx)
atan(x, nm, cx)  == OddFn(x, HalfPi, nm, cx)
atanh(x, nm, cx) == IF REq(fabs(x), IntR(1)) THEN Infinity(x.sg) ELSE OddFn(x, NaN, nm, cx)

cosh(x, nm, cx) ==
  IF x.cl = "nan" THEN NaN
  ELSE IF x.cl = "inf" THEN Infinity(1)
  ELSE IF IsZero(x) THEN IntR(1)
  ELSE Opq(1, nm, cx, TRUE)

exp(x, nm, cx) ==
  IF x.cl = "nan" THEN NaN
  ELSE IF x.cl = "inf" THEN (IF x.sg = 1 THEN x ELSE Zero(1))
  ELSE IF IsZero(x) THEN IntR(1)
  ELSE Opq(1, nm, cx, TRUE)

sqrt(x, nm, cx) ==
  IF x.cl = "nan" THEN NaN
  ELSE IF IsZero(x) THEN x
  ELSE IF x.sg = -1 /\ x.t.ps THEN NaN
  ELSE IF x.cl = "inf" THEN x
  ELSE IF x = IntR(1) THEN x
  ELSE Opq(1, nm, cx, TRUE)

hypot(x, y, nm, cx) ==
  IF x.cl = "inf" \/ y.cl = "inf" THEN Infinity(1)
  ELSE IF x.cl = "nan" \/ y.cl = "nan" THEN NaN
  ELSE IF IsZero(x) THEN (IF IsZero(y) THEN Zero(1) ELSE fabs(y))
  ELSE IF IsZero(y) THEN fabs(x)
  ELSE Opq(1, nm, cx, TRUE)

\* twice the rational of a multiple of pi, as a small integer (0 when it is
\* not a multiple of pi/2)
HalfTurns(x) ==
  IF x.t = PiTok /\ Len(x.n) = 1
  THEN (IF x.d = NOne THEN 2 * x.n[1] ELSE IF x.d = <<2>> THEN x.n[1] ELSE 0)
  ELSE 0

cos(x, nm, cx) ==
  IF x.cl # "num" THEN NaN
  ELSE IF IsZero(x) THEN IntR(1)
  ELSE IF HalfTurns(x) # 0
       THEN (IF HalfTurns(x) % 2 = 1 THEN Zero(1)
             ELSE IF HalfTurns(x) % 4 = 2 THEN IntR(-1) ELSE IntR(1))
  ELSE Opq(1, nm, cx, FALSE)

sin(x, nm, cx) ==
  IF x.cl # "num" THEN NaN
  ELSE IF IsZero(x) THEN x
  ELSE IF HalfTurns(x) # 0
       THEN (IF HalfTurns(x) % 2 = 0 THEN Zero(x.sg)
             ELSE IF HalfTurns(x) % 4 = 1 THEN IntR(x.sg) ELSE IntR(-x.sg))
  ELSE Opq(x.sg, nm, cx, FALSE)

\* the larger of x and y whose order is c; when the order is not known, a
\* token
fmaxOrdered(x, y, c, nm, cx) ==
  IF c = 2 THEN Opq(1, nm, cx, x.t.ps /\ y.t.ps /\ (x.sg = 1 \/ y.sg = 1))
  ELSE IF c = -1 THEN y ELSE x

fmax(x, y, nm, cx) ==
  IF x.cl = "nan" THEN y
  ELSE IF y.cl = "nan" THEN x
  ELSE fmaxOrdered(x, y, RCmp(x, y), nm, cx)

copysign(x, y) == IF x.cl = "nan" THEN x ELSE [fabs(x) EXCEPT !.sg = y.sg]

\* the sign of a value where the program branches on it; for a token whose
\* sign the model does not know, the sign is the input s (either is possible)
Resolve(x, s) ==
  IF x.cl # "num" \/ x.t.ps THEN x
  ELSE IF IsZero(x) THEN Zero(x.sg * s)
  ELSE [x EXCEPT !.sg = x.sg * s, !.t = Tok("|" \o x.t.nm \o "|", x.t.a, TRUE)]

atan2(y, x, nm, cx) ==
  IF x.cl = "nan" \/ y.cl = "nan" THEN NaN
  ELSE IF ~y.t.ps \/ ~x.t.ps THEN Opq(y.sg, nm, cx, FALSE)
  ELSE IF y.cl = "inf"
       THEN (IF x.cl = "inf"
             THEN (IF x.sg = 1 THEN PiFrac(y.sg, 1, 4) ELSE PiFrac(y.sg, 3, 4))
             ELSE PiFrac(y.sg, 1, 2))
  ELSE IF x.cl = "inf" THEN (IF x.sg = 1 THEN Zero(y.sg) ELSE PiFrac(y.sg, 1, 1))
  ELSE IF IsZero(y) THEN (IF x.sg = 1 THEN Zero(y.sg) ELSE PiFrac(y.sg, 1, 1))
  ELSE IF IsZero(x) THEN PiFrac(y.sg, 1, 2)
  ELSE Opq(y.sg, nm, cx, TRUE)

(***************************************************************************)
(* GeographicLib::Math, the utilities the projection calls.                *)
(***************************************************************************)
qd == 90
hd == 180
td == 2 * hd

\* the value of a small integral real as an integer
IsSmallInt(x) == x.cl = "num" /\ x.t = Unit /\ x.d = NOne /\ Len(x.n) <= 2
ToInt(x) == x.sg * (NHead(x.n) + Base * NHead(NTail(x.n)))

\* IEEE remainder and quotient of v >= 0 by m, ties to the even quotient
RemQuo(v, m) ==
  IF 2 * (v % m) < m \/ (2 * (v % m) = m /\ (v \div m) % 2 = 0)
  THEN [q |-> v \div m, r |-> v % m]
  ELSE [q |-> (v \div m) + 1, r |-> (v % m) - m]

\* the real with the sign of x and the magnitude of the integer r
SignedInt(x, r) == IF r = 0 THEN Zero(x.sg) ELSE IntR(x.sg * r)

remainder(x, m, nm, cx) ==
  IF x.cl # "num" THEN NaN
  ELSE IF IsSmallInt(x) THEN SignedInt(x, RemQuo(ToInt(fabs(x)), m).r)
  ELSE [n |-> NOne, d |-> NOne, cl |-> "num", sg |-> x.sg, t |-> FnTok(nm, x, x.t.ps)]

LatFix(x) == IF RGt(fabs(x), IntR(qd)) THEN NaN ELSE x

AngNormalizeOf(x, y) == IF REq(fabs(y), IntR(hd)) THEN copysign(IntR(hd), x) ELSE y

AngNormalize(x, nm, cx) == AngNormalizeOf(x, remainder(x, td, nm, cx))

AngDiffOf(x, y, d, cx) ==
  IF IsZero(d) \/ REq(fabs(d), IntR(hd))
  THEN copysign(d, RSub(y, x, "AngDiff.e", cx))
  ELSE d

\* the error term of Math::sum is 0 in exact arithmetic
AngDiff(x, y, cx) ==
  AngDiffOf(x, y,
            remainder(RAdd(remainder(RNeg(x), td, "AngDiff.x", cx),
                           remainder(y, td, "AngDiff.y", cx), "AngDiff.s", cx),
                      td, "AngDiff.d", cx),
            cx)

polyval(N, p, o, x) ==
  LET RECURSIVE H(_, _)
      H(i, y) == IF i > N THEN y
                 ELSE H(i + 1, RAdd(RMul(y, x, "polyval", <<>>), p[o + i + 1], "polyval", <<>>))
  IN  IF N < 0 THEN Zero(1) ELSE H(1, p[o + 1])

sq(x, nm, cx) == RMul(x, x, nm, cx)

Degree == [n |-> NOne, d |-> <<hd>>, cl |-> "num", sg |-> 1, t |-> PiTok]

\* sine and cosine of d degrees, 0 < |d| <= 45, of the sign sd of d
SinCosAbs(a, sd) ==
  IF 2 * a = qd
  THEN [s |-> Opq(sd, "sqrt(1/2)", <<>>, TRUE), c |-> Opq(1, "sqrt(1/2)", <<>>, TRUE)]
  ELSE IF 3 * a = qd
  THEN [s |-> [n |-> NOne, d |-> <<2>>, cl |-> "num", sg |-> sd, t |-> Unit],
        c |-> [n |-> NOne, d |-> <<2>>, cl |-> "num", sg |-> 1, t |-> Tok("sqrt(3)", <<>>, TRUE)]]
  ELSE [s |-> Opq(sd, "sin", <<a>>, TRUE), c |-> Opq(1, "cos", <<a>>, TRUE)]

\* sine and cosine of d degrees, |d| <= 45
SinCosReduced(d, x) ==
  IF d = 0 THEN [s |-> Zero(x.sg), c |-> IntR(1)]
  ELSE IF d < 0 THEN SinCosAbs(-d, -1) ELSE SinCosAbs(d, 1)

\* the quadrant q applied to the reduced sine and cosine sc
SinCosQuadrant(x, q, sc) ==
  [s |-> CASE q = 0 -> sc.s [] q = 1 -> sc.c [] q = 2 -> RNeg(sc.s) [] OTHER -> RNeg(sc.c),
   c |-> CASE q = 0 -> sc.c [] q = 1 -> RNeg(sc.s) [] q = 2 -> RNeg(sc.c) [] OTHER -> sc.s]

SinCosFix(x, r) ==
  [s |-> IF IsZero(r.s) THEN copysign(r.s, x) ELSE r.s,
   c |-> IF IsZero(r.c) THEN Zero(1) ELSE r.c]

SinCosOf(x, rq) ==
  SinCosFix(x, SinCosQuadrant(x, (x.sg * rq.q) % 4, SinCosReduced(x.sg * rq.r, x)))

sincosd(x) ==
  IF x.cl # "num" THEN [s |-> NaN, c |-> NaN]
  ELSE IF ~IsSmallInt(x)
       THEN [s |-> Opq(x.sg, "sind", x.t.a, FALSE), c |-> Opq(1, "cosd", x.t.a, FALSE)]
  ELSE SinCosOf(x, RemQuo(ToInt(fabs(x)), qd))

\* the quadrant q applied to the angle ang of the reduced point, y its
\* ordinate
atan2dQuadrant(y, q, ang, nm, cx) ==
  CASE q = 1 -> RSub(copysign(IntR(hd), y), ang, nm, cx)
    [] q = 2 -> RSub(IntR(qd), ang, nm, cx)
    [] q = 3 -> RAdd(IntR(-qd), ang, nm, cx)
    [] OTHER -> ang

atan2dReduced(y, x, q, nm, cx) ==
  atan2dQuadrant(y, q, RDiv(atan2(y, fabs(x), nm, cx), Degree, nm, cx), nm, cx)

atan2dOrdered(y, x, c, nm, cx) ==
  IF c = 2 \/ ~x.t.ps \/ ~y.t.ps THEN Opq(y.sg, nm, cx, y.t.ps)
  ELSE IF c = 1 THEN atan2dReduced(x, y, 2 + (IF signbit(y) THEN 1 ELSE 0), nm, cx)
  ELSE atan2dReduced(y, x, IF signbit(x) THEN 1 ELSE 0, nm, cx)

atan2d(y, x, nm, cx) ==
  IF x.cl = "nan" \/ y.cl = "nan" THEN NaN
  ELSE atan2dOrdered(y, x, RCmp(fabs(y), fabs(x)), nm, cx)

atand(x, nm, cx) == atan2d(x, IntR(1), nm, cx)

eatanhe(x, es, cx) ==
  IF RGt(es, Zero(1))
  THEN RMul(es, atanh(RMul(es, x, "eatanhe.x", cx), "eatanhe.a", cx), "eatanhe", cx)
  ELSE RMul(RNeg(es), atan(RMul(es, x, "eatanhe.x", cx), "eatanhe.a", cx), "eatanhe", cx)

\* taupf is odd and increasing in tau: a result that is a token has the sign
\* of tau
taupfNamed(tau, r, cx) ==
  IF r.cl = "num" /\ r.t.nm = "taupf" THEN Opq(tau.sg, "taupf", cx, tau.t.ps) ELSE r

taupfSig(tau, tau1, sig, cx) ==
  taupfNamed(tau,
             RSub(RMul(hypot(IntR(1), sig, "taupf.h", cx), tau, "taupf.l", cx),
                  RMul(sig, tau1, "taupf.r", cx), "taupf", cx),
             cx)

taupfTau1(tau, tau1, es, cx) ==
  taupfSig(tau, tau1,
           sinh(eatanhe(RDiv(tau, tau1, "taupf.q", cx), es, cx), "taupf.sig", cx), cx)

taupf(tau, es, cx) ==
  IF ~isfinite(tau) THEN tau
  ELSE taupfTau1(tau, hypot(IntR(1), tau, "taupf.tau1", cx), es, cx)

\* Newton's method from tau = taup/e2m: the start when it already solves
\* taupf(tau) = taup, else the solution, which has the sign of taup
taufFrom(taup, tau0, es, cx) ==
  IF taupf(tau0, es, cx) = taup THEN tau0 ELSE Opq(taup.sg, "tauf", cx, taup.t.ps)

tauf(taup, es, cx) ==
  IF ~isfinite(taup) THEN taup
  ELSE taufFrom(taup,
                RDiv(taup, RSub(IntR(1), sq(es, "tauf.e2", cx), "tauf.e2m", cx),
                     "tauf.tau0", cx),
                es, cx)

(***************************************************************************)
(* The coefficient tables, generated by Maxima.  I(i) is the real with the *)
(* integer value i; L(<<g1, .., gk>>) is the real whose decimal digits are *)
(* the four-digit groups g1 .. gk (a 64-bit literal), NL its negative.     *)
(***************************************************************************)
I(i) == IntR(i)

RECURSIVE NOfGroups(_)
NOfGroups(g) == IF g = <<>> THEN <<>> ELSE <<g[Len(g)]>> \o NOfGroups(SubSeq(g, 1, Len(g) - 1))

L(g)  == Num(1, NOfGroups(g), NOne, Unit)
NL(g) == Num(-1, NOfGroups(g), NOne, Unit)

\* b1*(n+1), polynomial in n2 of order 2
b1coeff2 ==
  <<I(1), I(16), I(64), I(64)>>

\* b1*(n+1), polynomial in n2 of order 3
b1coeff3 ==
  <<I(1), I(4), I(64), I(256), I(256)>>

\* b1*(n+1), polynomial in n2 of order 4
b1coeff4 ==
  <<I(25), I(64), I(256), I(4096), I(16384), I(16384)>>

\* alp[l]/n^l, l = 1..4: a polynomial in n of order 4-l, then its divisor
alpcoeff4 ==
  <<I(164), I(225), I(-480), I(360), I(720),
    I(557), I(-864), I(390), I(1440),
    I(-1236), I(427), I(1680),
    I(49561), I(161280)>>

\* alp[l]/n^l, l = 1..5: a polynomial in n of order 5-l, then its divisor
alpcoeff5 ==
  <<I(-635), I(328), I(450), I(-960), I(720), I(1440),
    I(4496), I(3899), I(-6048), I(2730), I(10080),
    I(15061), I(-19776), I(6832), I(26880),
    I(-171840), I(49561), I(161280),
    I(34729), I(80640)>>

\* alp[l]/n^l, l = 1..6: a polynomial in n of order 6-l, then its divisor
alpcoeff6 ==
  <<I(31564), I(-66675), I(34440), I(47250), I(-100800), I(75600), I(151200),
    I(-1983433), I(863232), I(748608), I(-1161216), I(524160), I(1935360),
    I(670412), I(406647), I(-533952), I(184464), I(725760),
    I(6601661), I(-7732800), I(2230245), I(7257600),
    I(-13675556), I(3438171), I(7983360),
    I(212378941), I(319334400)>>

\* alp[l]/n^l, l = 1..7: a polynomial in n of order 7-l, then its divisor
alpcoeff7 ==
  <<I(1804025), I(2020096), I(-4267200), I(2204160), I(3024000), I(-6451200), I(4838400), I(9676800),
    I(4626384), I(-9917165), I(4316160), I(3743040), I(-5806080), I(2620800), I(9676800),
    I(-67102379), I(26816480), I(16265880), I(-21358080), I(7378560), I(29030400),
    I(155912000), I(72618271), I(-85060800), I(24532695), I(79833600),
    I(102508609), I(-109404448), I(27505368), I(63866880),
    NL(<<122, 8219, 2400>>), L(<<27, 6092, 6233>>), L(<<41, 5134, 7200>>),
    I(1522256789), I(1383782400)>>

\* alp[l]/n^l, l = 1..8: a polynomial in n of order 8-l, then its divisor
alpcoeff8 ==
  <<I(-75900428), I(37884525), I(42422016), I(-89611200), I(46287360), I(63504000), I(-135475200), I(101606400), I(203212800),
    I(148003883), I(83274912), I(-178508970), I(77690880), I(67374720), I(-104509440), I(47174400), I(174182400),
    I(318729724), I(-738126169), I(294981280), I(178924680), I(-234938880), I(81164160), I(319334400),
    NL(<<401, 7612, 9013>>), L(<<149, 6755, 2000>>), L(<<69, 7135, 4016>>), NL(<<81, 6583, 6800>>), L(<<23, 5513, 8720>>), L(<<76, 6402, 5600>>),
    L(<<104, 2165, 4396>>), L(<<39, 9783, 5751>>), NL(<<42, 6677, 3472>>), I(1072709352), L(<<24, 9080, 8320>>),
    L(<<1752, 1432, 6799>>), NL(<<1719, 5069, 3600>>), L(<<386, 5296, 7262>>), L(<<581, 1886, 0800>>),
    NL(<<670, 3973, 9596>>), L(<<137, 0031, 1101>>), L(<<124, 5404, 1600>>),
    L(<<1, 4247, 2985, 0961>>), L(<<7439, 2141, 8240>>)>>

\* bet[l]/n^l, l = 1..4: a polynomial in n of order 4-l, then its divisor
betcoeff4 ==
  <<I(-4), I(555), I(-960), I(720), I(1440),
    I(-437), I(96), I(30), I(1440),
    I(-148), I(119), I(3360),
    I(4397), I(161280)>>

\* bet[l]/n^l, l = 1..5: a polynomial in n of order 5-l, then its divisor
betcoeff5 ==
  <<I(-3645), I(-64), I(8880), I(-15360), I(11520), I(23040),
    I(4416), I(-3059), I(672), I(210), I(10080),
    I(-627), I(-592), I(476), I(13440),
    I(-3520), I(4397), I(161280),
    I(4583), I(161280)>>

\* bet[l]/n^l, l = 1..6: a polynomial in n of order 6-l, then its divisor
betcoeff6 ==
  <<I(384796), I(-382725), I(-6720), I(932400), I(-1612800), I(1209600), I(2419200),
    I(-1118711), I(1695744), I(-1174656), I(258048), I(80640), I(3870720),
    I(22276), I(-16929), I(-15984), I(12852), I(362880),
    I(-830251), I(-158400), I(197865), I(7257600),
    I(-435388), I(453717), I(15966720),
    I(20648693), I(638668800)>>

\* bet[l]/n^l, l = 1..7: a polynomial in n of order 7-l, then its divisor
betcoeff7 ==
  <<I(-5406467), I(6156736), I(-6123600), I(-107520), I(14918400), I(-25804800), I(19353600), I(38707200),
    I(829456), I(-5593555), I(8478720), I(-5873280), I(1290240), I(403200), I(19353600),
    I(9261899), I(3564160), I(-2708640), I(-2557440), I(2056320), I(58060800),
    I(14928352), I(-9132761), I(-1742400), I(2176515), I(79833600),
    I(-8005831), I(-1741552), I(1814868), I(63866880),
    I(-261810608), I(268433009), L(<<83, 0269, 4400>>),
    I(219941297), L(<<55, 3512, 9600>>)>>

\* bet[l]/n^l, l = 1..8: a polynomial in n of order 8-l, then its divisor
betcoeff8 ==
  <<I(31777436), I(-37845269), I(43097152), I(-42865200), I(-752640), I(104428800), I(-180633600), I(135475200), I(270950400),
    I(24749483), I(14930208), I(-100683990), I(152616960), I(-105719040), I(23224320), I(7257600), I(348364800),
    I(-232468668), I(101880889), I(39205760), I(-29795040), I(-28131840), I(22619520), I(638668800),
    I(324154477), I(1433121792), I(-876745056), I(-167270400), I(208945440), L(<<76, 6402, 5600>>),
    I(457888660), I(-312227409), I(-67920528), I(70779852), L(<<24, 9080, 8320>>),
    NL(<<198, 4181, 3847>>), NL(<<36, 6534, 8512>>), L(<<37, 5806, 2126>>), L(<<1162, 3772, 1600>>),
    I(-1989295244), I(1979471673), L(<<498, 1616, 6400>>),
    L(<<1917, 7388, 7257>>), L(<<3, 7196, 0709, 1200>>)>>

b1coeff(order) ==
  CASE order \div 2 = 2 -> b1coeff2 [] order \div 2 = 3 -> b1coeff3 [] order \div 2 = 4 -> b1coeff4

alpcoeff(order) ==
  CASE order = 4 -> alpcoeff4 [] order = 5 -> alpcoeff5 [] order = 6 -> alpcoeff6
    [] order = 7 -> alpcoeff7 [] order = 8 -> alpcoeff8

betcoeff(order) ==
  CASE order = 4 -> betcoeff4 [] order = 5 -> betcoeff5 [] order = 6 -> betcoeff6
    [] order = 7 -> betcoeff7 [] order = 8 -> betcoeff8

(***************************************************************************)
(* State.                                                                  *)
(***************************************************************************)
VARIABLES
  maxpow,   \* GEOGRAPHICLIB_TRANSVERSEMERCATOR_ORDER, fixed when the library is built
  cfg,      \* the arguments of the constructor call, once it has been made
  eng,      \* the TransverseMercator object
  calls     \* the Forward and Reverse calls in progress, one frame per thread

vars == <<maxpow, cfg, eng, calls>>

\* a member or local that has not been assigned
Unset == [n |-> <<>>, d |-> NOne, cl |-> "unset", sg |-> 1, t |-> Unit]
CUnset == [re |-> Unset, im |-> Unset]

Orders == 4..8

(***************************************************************************)
(* TransverseMercatorExact, the alternate engine (not part of this file).  *)
(***************************************************************************)
TMExactDefault == [a |-> Unset, made |-> FALSE, f |-> Unset, k0 |-> Unset, extendp |-> FALSE]

TMExactValid(a, f, k0) ==
  /\ isfinite(a) /\ RGt(a, Zero(1))
  /\ isfinite(f) /\ RLt(f, IntR(1))
  /\ isfinite(k0) /\ RGt(k0, Zero(1))

TMExactMake(a, f, k0, extendp) == [a |-> a, made |-> TRUE, f |-> f, k0 |-> k0, extendp |-> extendp]

TMExactKey(tm, lon0, u, v) ==
  Enc(tm.a) \o Enc(tm.f) \o Enc(tm.k0) \o <<IF tm.extendp THEN 1 ELSE 0>>
    \o Enc(lon0) \o Enc(u) \o Enc(v)

\* the four outputs of the exact engine, named by its parameters and the
\* arguments of the call
TMExactOut(op, key) ==
  [o1 |-> Opq(1, "tmexact." \o op \o ".1", key, FALSE),
   o2 |-> Opq(1, "tmexact." \o op \o ".2", key, FALSE),
   gamma |-> Opq(1, "tmexact." \o op \o ".gamma", key, FALSE),
   k |-> Opq(1, "tmexact." \o op \o ".k", key, TRUE)]

TMExactForward(tm, lon0, lat, lon) == TMExactOut("Forward", TMExactKey(tm, lon0, lat, lon))
TMExactReverse(tm, lon0, x, y) == TMExactOut("Reverse", TMExactKey(tm, lon0, x, y))

(***************************************************************************)
(* The constructor.  Each definition is a member initialiser or a          *)
(* statement, applied to the object under construction.                    *)
(***************************************************************************)
NoEngine ==
  [a |-> Unset, c |-> Unset, n |-> Unset, es |-> Unset, f |-> Unset,
   k0 |-> Unset, st |-> "none", exact |-> FALSE, e2 |-> Unset, e2m |-> Unset,
   tmexact |-> TMExactDefault, b1 |-> Unset, a1 |-> Unset,
   alp |-> [j \in 0..maxpow |-> Unset], bet |-> [j \in 0..maxpow |-> Unset]]

\* lines 51-54
InitArgs(a, f, k0, exact) == [NoEngine EXCEPT !.a = a, !.f = f, !.k0 = k0, !.exact = exact]
\* line 55
InitE2(e) ==
  [e EXCEPT !.e2 = RMul(e.f, RSub(IntR(2), e.f, "2-f", Enc(e.f)), "e2", Enc(e.f))]
\* line 56
InitEs(e) ==
  [e EXCEPT !.es = RSgn(sqrt(fabs(e.e2), "es", Enc(e.f)), IF RLt(e.f, Zero(1)) THEN -1 ELSE 1)]
\* line 57
InitE2m(e) == [e EXCEPT !.e2m = RSub(IntR(1), e.e2, "e2m", Enc(e.f))]
\* line 60
InitC(e) ==
  [e EXCEPT !.c = RMul(sqrt(e.e2m, "sqrt(e2m)", Enc(e.f)),
                       exp(eatanhe(IntR(1), e.es, Enc(e.f)), "exp(eatanhe)", Enc(e.f)),
                       "c", Enc(e.f))]
\* line 61
InitN(e) == [e EXCEPT !.n = RDiv(e.f, RSub(IntR(2), e.f, "2-f", Enc(e.f)), "n", Enc(e.f))]
\* lines 62-63
InitTmexact(e, extendp) ==
  [e EXCEPT !.tmexact = IF e.exact THEN TMExactMake(e.a, e.f, e.k0, extendp)
                        ELSE TMExactDefault]

\* the member initialisers, lines 51-63
Members(a, f, k0, exact, extendp) ==
  InitTmexact(InitN(InitC(InitE2m(InitEs(InitE2(InitArgs(a, f, k0, exact)))))), extendp)

\* line 270
SetB1(e) ==
  [e EXCEPT !.b1 = RDiv(polyval(maxpow \div 2, b1coeff(maxpow), 0, sq(e.n, "n2", <<>>)),
                        RMul(b1coeff(maxpow)[(maxpow \div 2) + 2],
                             RAdd(IntR(1), e.n, "1+n", <<>>), "b1.d", <<>>),
                        "b1", <<>>)]
\* line 273
SetA1(e) == [e EXCEPT !.a1 = RMul(e.b1, e.a, "a1", <<>>)]

\* lines 277-281 with o += m + 1 for o += m + 2
CoeffBodyShort(s) ==
  [d |-> RMul(s.d, s.e.n, "d", <<>>),
   e |-> [s.e EXCEPT
            !.alp[s.l] = RDiv(RMul(s.d, polyval(maxpow - s.l, alpcoeff(maxpow), s.o, s.e.n),
                                   "alp", <<s.l>>),
                              alpcoeff(maxpow)[s.o + (maxpow - s.l) + 2], "alp", <<s.l>>),
            !.bet[s.l] = RDiv(RMul(s.d, polyval(maxpow - s.l, betcoeff(maxpow), s.o, s.e.n),
                                   "bet", <<s.l>>),
                              betcoeff(maxpow)[s.o + (maxpow - s.l) + 2], "bet", <<s.l>>)],
   o |-> s.o + (maxpow - s.l) + 1,
   l |-> s.l + 1]

\* the body of the loop, lines 277-281, on the object e and the locals
\* l, o, d of s
CoeffBody(s) ==
  [d |-> RMul(s.d, s.e.n, "d", <<>>),
   e |-> [s.e EXCEPT
            !.alp[s.l] = RDiv(RMul(s.d, polyval(maxpow - s.l, alpcoeff(maxpow), s.o, s.e.n),
                                   "alp", <<s.l>>),
                              alpcoeff(maxpow)[s.o + (maxpow - s.l) + 2], "alp", <<s.l>>),
            !.bet[s.l] = RDiv(RMul(s.d, polyval(maxpow - s.l, betcoeff(maxpow), s.o, s.e.n),
                                   "bet", <<s.l>>),
                              betcoeff(maxpow)[s.o + (maxpow - s.l) + 2], "bet", <<s.l>>)],
   o |-> s.o + (maxpow - s.l) + 2,
   l |-> s.l + 1]

\* the loop over l = 1 .. maxpow_, lines 276-282
RECURSIVE CoeffLoop(_)
CoeffLoop(s) == IF ~(s.l <= maxpow) THEN s ELSE CoeffLoop(CoeffBody(s))

\* lines 274-275 with d = 1 for d = _n
CoeffStartOne(e) == [d |-> IntR(1), e |-> e, o |-> 0, l |-> 1]

\* lines 274-275
CoeffStart(e) == [d |-> e.n, e |-> e, o |-> 0, l |-> 1]

\* lines 269-282
Coefficients(e) == CoeffLoop(CoeffStart(SetA1(SetB1(e)))).e

Thrown(msg) == [eng |-> [NoEngine EXCEPT !.st = "failed"], err |-> msg]

\* the body of the constructor without the check of lines 72-73
BodyNoExtendp(e, extendp) ==
  IF e.exact THEN [eng |-> [e EXCEPT !.st = "ok"], err |-> ""]
  ELSE IF ~(isfinite(e.a) /\ RGt(e.a, Zero(1)))
    THEN Thrown("Equatorial radius is not positive")
  ELSE IF ~(isfinite(e.f) /\ RLt(e.f, IntR(1)))
    THEN Thrown("Polar semi-axis is not positive")
  ELSE IF ~(isfinite(e.k0) /\ RGt(e.k0, Zero(1)))
    THEN Thrown("Scale is not positive")
  ELSE [eng |-> [Coefficients(e) EXCEPT !.st = "ok"], err |-> ""]

\* the body of the constructor, lines 65-285, after the member initialisers
Body(e, extendp) ==
  IF e.exact THEN [eng |-> [e EXCEPT !.st = "ok"], err |-> ""]
  ELSE IF ~(isfinite(e.a) /\ RGt(e.a, Zero(1)))
    THEN Thrown("Equatorial radius is not positive")
  ELSE IF ~(isfinite(e.f) /\ RLt(e.f, IntR(1)))
    THEN Thrown("Polar semi-axis is not positive")
  ELSE IF ~(isfinite(e.k0) /\ RGt(e.k0, Zero(1)))
    THEN Thrown("Scale is not positive")
  ELSE IF extendp
    THEN Thrown("TransverseMercator extendp not allowed if !exact")
  ELSE [eng |-> [Coefficients(e) EXCEPT !.st = "ok"], err |-> ""]

\* the outcome of TransverseMercator(a, f, k0, exact, extendp): the object, or
\* the message of the exception thrown (the constructor of the member
\* _tmexact throws on the arguments it does not accept)
Construct(a, f, k0, exact, extendp) ==
  IF exact /\ ~TMExactValid(a, f, k0) THEN Thrown("TransverseMercatorExact")
  ELSE Body(Members(a, f, k0, exact, extendp), extendp)


(***************************************************************************)
(* complex<real>.                                                          *)
(***************************************************************************)
Cplx(re, im) == [re |-> re, im |-> im]
CReal(x) == Cplx(x, Zero(1))
CZero == CReal(Zero(1))

CMul(a, b, nm, cx) ==
  Cplx(RSub(RMul(a.re, b.re, nm \o ".rr", cx), RMul(a.im, b.im, nm \o ".ii", cx),
            nm \o ".re", cx),
       RAdd(RMul(a.re, b.im, nm \o ".ri", cx), RMul(a.im, b.re, nm \o ".ir", cx),
            nm \o ".im", cx))

CSub(a, b, nm, cx) ==
  Cplx(RSub(a.re, b.re, nm \o ".re", cx), RSub(a.im, b.im, nm \o ".im", cx))

CAdd(a, b, nm, cx) ==
  Cplx(RAdd(a.re, b.re, nm \o ".re", cx), RAdd(a.im, b.im, nm \o ".im", cx))

\* complex + real: the real part alone changes
CAddR(a, x, nm, cx) == Cplx(RAdd(a.re, x, nm \o ".re", cx), a.im)
\* real - complex
RSubC(x, a, nm, cx) == Cplx(RSub(x, a.re, nm \o ".re", cx), RNeg(a.im))
CDivR(a, x, nm, cx) ==
  Cplx(RDiv(a.re, x, nm \o ".re", cx), RDiv(a.im, x, nm \o ".im", cx))

abs(z, nm, cx) == hypot(z.re, z.im, nm, cx)

(***************************************************************************)
(* A call of Forward or Reverse: the frame of the thread that makes it,    *)
(* with the parameters and the locals of the two functions.  args, cx,     *)
(* orc, reads, idx and deleg are history: the arguments of the call, the   *)
(* key of its tokens, the signs decided for it, the members of the object  *)
(* it has read, the indices of _alp or _bet it has read, in order, and     *)
(* whether it was handed to _tmexact.                                      *)
(***************************************************************************)
Idle ==
  [s |-> Unset, a |-> CUnset, c |-> Unset,
   r |-> Unset, n |-> 0, x |-> Unset, cx |-> <<>>, y |-> Unset,
   tau |-> Unset, taup |-> Unset,
   lon0 |-> Unset, op |-> "none", gamma |-> Unset, k |-> Unset, lat |-> Unset,
   lon |-> Unset, pc |-> "idle", args |-> <<>>, latsign |-> 0,
   lonsign |-> 0, xisign |-> 0, etasign |-> 0, backside |-> FALSE,
   sphi |-> Unset, cphi |-> Unset,
   slam |-> Unset, clam |-> Unset, xip |-> Unset, etap |-> Unset,
   xi |-> Unset, eta |-> Unset, c0 |-> Unset, ch0 |-> Unset, s0 |-> Unset, sh0 |-> Unset,
   y0 |-> CUnset, y1 |-> CUnset, z0 |-> CUnset, z1 |-> CUnset,
   sxip |-> Unset, orc |-> [zr |-> 0, zi |-> 0, cs |-> 0],
   reads |-> {}, idx |-> <<>>, deleg |-> FALSE]

CallForward(lon0, lat, lon) ==
  [Idle EXCEPT !.op = "Forward", !.pc = "entry", !.args = <<lon0, lat, lon>>,
               !.lon0 = lon0, !.lat = lat, !.lon = lon]

CallReverse(lon0, x, y) ==
  [Idle EXCEPT !.op = "Reverse", !.pc = "entry", !.args = <<lon0, x, y>>,
               !.lon0 = lon0, !.x = x, !.y = y]

\* what a call returns through its four reference parameters
Outputs(fr) ==
  IF fr.op = "Forward" THEN <<fr.x, fr.y, fr.gamma, fr.k>>
  ELSE <<fr.lat, fr.lon, fr.gamma, fr.k>>

\* the signs the exact arithmetic leaves open, as the run of the program
\* decides them: of z1.real(), of a zero z1.imag(), of cos(xip)
Signs == {1, -1}
Orc == [zr : Signs, zi : Signs, cs : Signs]
\* Forward does not evaluate cos(xip)
OrcForward == {o \in Orc : o.cs = 1}

Goto(fr, pc) == [fr EXCEPT !.pc = pc]

(***************************************************************************)
(* Forward, statement by statement.                                        *)
(***************************************************************************)
\* lines 363-364 without the test of _exact
ForwardEntrySeries(e, fr) == [fr EXCEPT !.pc = "fold", !.reads = @ \cup {"exact"}]

\* lines 363-364
ForwardEntry(e, fr) ==
  IF e.exact
  THEN [fr EXCEPT !.pc = "done", !.deleg = TRUE, !.reads = @ \cup {"exact", "tmexact"},
                  !.x = TMExactForward(e.tmexact, fr.lon0, fr.lat, fr.lon).o1,
                  !.y = TMExactForward(e.tmexact, fr.lon0, fr.lat, fr.lon).o2,
                  !.gamma = TMExactForward(e.tmexact, fr.lon0, fr.lat, fr.lon).gamma,
                  !.k = TMExactForward(e.tmexact, fr.lon0, fr.lat, fr.lon).k]
  ELSE [fr EXCEPT !.pc = "fold", !.reads = @ \cup {"exact"}]

\* line 365
F365(fr) == [fr EXCEPT !.lat = LatFix(fr.lat)]
\* line 366
F366(fr) == [fr EXCEPT !.lon = AngDiff(fr.lon0, fr.lon, <<>>)]
\* lines 368-370
F369(fr) ==
  [fr EXCEPT !.latsign = IF signbit(fr.lat) THEN -1 ELSE 1,
             !.lonsign = IF signbit(fr.lon) THEN -1 ELSE 1]
\* lines 371-372
F371(fr) == [fr EXCEPT !.lon = RSgn(fr.lon, fr.lonsign), !.lat = RSgn(fr.lat, fr.latsign)]

\* lines 365-372
ForwardSigns(fr) == F371(F369(F366(F365(fr))))

\* line 373 with >= for >
F373Ge(fr) == [fr EXCEPT !.backside = ~RLt(fr.lon, IntR(qd))]

\* line 373
F373(fr) == [fr EXCEPT !.backside = RGt(fr.lon, IntR(qd))]

\* lines 374-378, the back-side rule on the way in
F374(fr) ==
  IF fr.backside
  THEN [fr EXCEPT !.latsign = IF REq(fr.lat, Zero(1)) THEN -1 ELSE @,
                  !.lon = RSub(IntR(hd), fr.lon, "hd-lon", <<>>)]
  ELSE fr

\* lines 365-378
ForwardFold(e, fr) == Goto(F374(F373(ForwardSigns(fr))), "gs")

\* the key of the tokens of the call: what follows depends on the object
\* and on the folded latitude and longitude alone
F379(e, fr) == [fr EXCEPT !.cx = <<1>> \o Enc(e.f) \o Enc(fr.lat) \o Enc(fr.lon)]
\* line 380
F380(fr) == [fr EXCEPT !.sphi = sincosd(fr.lat).s, !.cphi = sincosd(fr.lat).c]
\* line 381
F381(fr) == [fr EXCEPT !.slam = sincosd(fr.lon).s, !.clam = sincosd(fr.lon).c]
\* line 402
F402(fr) == [fr EXCEPT !.tau = RDiv(fr.sphi, fr.cphi, "tau", fr.cx)]
\* line 403
F403(e, fr) == [fr EXCEPT !.taup = taupf(fr.tau, e.es, fr.cx), !.reads = @ \cup {"es"}]
\* line 404
F404(fr) == [fr EXCEPT !.xip = atan2(fr.taup, fr.clam, "xip", fr.cx)]
\* line 407
F407(fr) ==
  [fr EXCEPT !.etap = asinh(RDiv(fr.slam, hypot(fr.taup, fr.clam, "hypot(taup,clam)", fr.cx),
                                 "slam/hypot", fr.cx), "etap", fr.cx)]
\* line 412
F412(fr) ==
  [fr EXCEPT !.gamma = atan2d(RMul(fr.slam, fr.taup, "slam*taup", fr.cx),
                              RMul(fr.clam, hypot(IntR(1), fr.taup, "hypot(1,taup)", fr.cx),
                                   "clam*hypot", fr.cx),
                              "gamma0", fr.cx)]
\* lines 420-421
F420(e, fr) ==
  [fr EXCEPT !.k = RDiv(RMul(sqrt(RAdd(e.e2m,
                                       RMul(e.e2, sq(fr.cphi, "cphi2", fr.cx), "e2*cphi2", fr.cx),
                                       "e2m+e2*cphi2", fr.cx), "sqrt(e2m+e2*cphi2)", fr.cx),
                             hypot(IntR(1), fr.tau, "hypot(1,tau)", fr.cx), "kGS.n", fr.cx),
                        hypot(fr.taup, fr.clam, "hypot(taup,clam)", fr.cx), "kGS", fr.cx),
             !.reads = @ \cup {"e2m", "e2"}]
\* lines 423-426 with k = 1 for k = _c
F423UnitScale(e, fr) ==
  [fr EXCEPT !.xip = HalfPi, !.etap = Zero(1), !.gamma = fr.lon, !.k = IntR(1)]

\* lines 423-426
F423(e, fr) ==
  [fr EXCEPT !.xip = HalfPi, !.etap = Zero(1), !.gamma = fr.lon, !.k = e.c,
             !.reads = @ \cup {"c"}]

\* lines 400-427
F400(e, fr) ==
  IF RNe(fr.lat, IntR(qd)) THEN F420(e, F412(F407(F404(F403(e, F402(fr))))))
  ELSE F423(e, fr)

\* lines 379-427
ForwardGS(e, fr) == Goto(F400(e, F381(F380(F379(e, fr)))), "init")

\* lines 493-495 and 548-550, at the point (xi, eta)
C494(fr, xi, eta) ==
  [fr EXCEPT !.c0  = cos(RMul(IntR(2), xi, "2xi", fr.cx), "c0", fr.cx),
             !.ch0 = cosh(RMul(IntR(2), eta, "2eta", fr.cx), "ch0", fr.cx),
             !.s0  = sin(RMul(IntR(2), xi, "2xi", fr.cx), "s0", fr.cx),
             !.sh0 = sinh(RMul(IntR(2), eta, "2eta", fr.cx), "sh0", fr.cx)]
\* lines 496 and 551
C496(fr) ==
  [fr EXCEPT !.a = Cplx(RMul(RMul(IntR(2), fr.c0, "2c0", fr.cx), fr.ch0, "a.re", fr.cx),
                        RMul(RMul(IntR(-2), fr.s0, "2s0", fr.cx), fr.sh0, "a.im", fr.cx))]
\* lines 497-500 without the --n of line 501
C497NoDecrement(fr, c, sg) ==
  IF maxpow % 2 = 1
  THEN [fr EXCEPT !.y0 = CReal(RSgn(c[maxpow], sg)), !.y1 = CZero,
                  !.z0 = CReal(RMul(IntR(sg * 2 * maxpow), c[maxpow], "2n*c", fr.cx)),
                  !.z1 = CZero, !.n = maxpow, !.idx = <<maxpow, maxpow>>]
  ELSE [fr EXCEPT !.y0 = CZero, !.y1 = CZero, !.z0 = CZero, !.z1 = CZero, !.n = maxpow]

\* lines 497-501 with c = _alp and sg = 1, lines 552-556 with c = _bet and
\* sg = -1
C497(fr, c, sg) ==
  IF maxpow % 2 = 1
  THEN [fr EXCEPT !.y0 = CReal(RSgn(c[maxpow], sg)), !.y1 = CZero,
                  !.z0 = CReal(RMul(IntR(sg * 2 * maxpow), c[maxpow], "2n*c", fr.cx)),
                  !.z1 = CZero, !.n = maxpow - 1, !.idx = <<maxpow, maxpow>>]
  ELSE [fr EXCEPT !.y0 = CZero, !.y1 = CZero, !.z0 = CZero, !.z1 = CZero, !.n = maxpow]

\* lines 503 and 558
C503(fr, c, sg) ==
  [fr EXCEPT !.y1 = CAddR(CSub(CMul(fr.a, fr.y0, "a*y0", fr.cx \o <<fr.n>>), fr.y1,
                               "a*y0-y1", fr.cx \o <<fr.n>>),
                          RSgn(c[fr.n], sg), "y1", fr.cx \o <<fr.n>>),
             !.idx = Append(@, fr.n)]
\* lines 504 and 559
C504(fr, c, sg) ==
  [fr EXCEPT !.z1 = CAddR(CSub(CMul(fr.a, fr.z0, "a*z0", fr.cx \o <<fr.n>>), fr.z1,
                               "a*z0-z1", fr.cx \o <<fr.n>>),
                          RMul(IntR(sg * 2 * fr.n), c[fr.n], "2n*c", fr.cx \o <<fr.n>>),
                          "z1", fr.cx \o <<fr.n>>),
             !.idx = Append(@, fr.n)]
\* lines 505, 508, 560 and 563
C505(fr) == [fr EXCEPT !.n = @ - 1]
\* lines 506 and 561 without the subtraction of y0
C506NoSubtract(fr, c, sg) ==
  [fr EXCEPT !.y0 = CAddR(CMul(fr.a, fr.y1, "a*y1", fr.cx \o <<fr.n>>),
                          RSgn(c[fr.n], sg), "y0", fr.cx \o <<fr.n>>),
             !.idx = Append(@, fr.n)]

\* lines 506 and 561
C506(fr, c, sg) ==
  [fr EXCEPT !.y0 = CAddR(CSub(CMul(fr.a, fr.y1, "a*y1", fr.cx \o <<fr.n>>), fr.y0,
                               "a*y1-y0", fr.cx \o <<fr.n>>),
                          RSgn(c[fr.n], sg), "y0", fr.cx \o <<fr.n>>),
             !.idx = Append(@, fr.n)]
\* lines 507 and 562
C507(fr, c, sg) ==
  [fr EXCEPT !.z0 = CAddR(CSub(CMul(fr.a, fr.z1, "a*z1", fr.cx \o <<fr.n>>), fr.z0,
                               "a*z1-z0", fr.cx \o <<fr.n>>),
                          RMul(IntR(sg * 2 * fr.n), c[fr.n], "2n*c", fr.cx \o <<fr.n>>),
                          "z0", fr.cx \o <<fr.n>>),
             !.idx = Append(@, fr.n)]

\* the body of while (n), lines 503-508 and 558-563
ClenshawBody(fr, c, sg) ==
  C505(C507(C506(C505(C504(C503(fr, c, sg), c, sg)), c, sg), c, sg))

\* lines 510 and 565
C510(fr) == [fr EXCEPT !.a = CDivR(fr.a, IntR(2), "a/2", fr.cx)]
\* lines 511 and 566
C511(fr) ==
  [fr EXCEPT !.z1 = CAdd(RSubC(IntR(1), fr.z1, "1-z1", fr.cx),
                         CMul(fr.a, fr.z0, "a2*z0", fr.cx), "z1.end", fr.cx)]
\* lines 512 and 567
C512(fr) ==
  [fr EXCEPT !.a = Cplx(RMul(fr.s0, fr.ch0, "s0*ch0", fr.cx),
                        RMul(fr.c0, fr.sh0, "c0*sh0", fr.cx))]
\* lines 513 and 568, at the point (xi, eta)
C513(fr, xi, eta) ==
  [fr EXCEPT !.y1 = CAdd(Cplx(xi, eta), CMul(fr.a, fr.y0, "as*y0", fr.cx), "y1.end", fr.cx)]

\* lines 510-513 and 565-568
ClenshawEnd(fr, xi, eta) == C513(C512(C511(C510(fr))), xi, eta)

\* the signs of z1 as the run decides them
Decide(fr, orc) ==
  [fr EXCEPT !.orc = orc, !.cx = @ \o <<orc.zr, orc.zi, orc.cs>>,
             !.z1 = Cplx(Resolve(fr.z1.re, orc.zr), Resolve(fr.z1.im, orc.zi))]

\* lines 493-501
ForwardClenshawInit(e, fr) ==
  [C497(C496(C494(fr, fr.xip, fr.etap)), e.alp, 1) EXCEPT
     !.pc = "loop", !.reads = IF maxpow % 2 = 1 THEN @ \cup {"alp"} ELSE @]

\* lines 502-509, one iteration
ForwardClenshawLoop(e, fr) ==
  [ClenshawBody(fr, e.alp, 1) EXCEPT !.reads = @ \cup {"alp"}]

\* line 516
F516(fr) ==
  [fr EXCEPT !.gamma = RSub(fr.gamma, atan2d(fr.z1.im, fr.z1.re, "atan2d(z1)", fr.cx),
                            "gamma", fr.cx)]
\* line 517
F517(e, fr) ==
  [fr EXCEPT !.k = RMul(fr.k, RMul(e.b1, abs(fr.z1, "abs(z1)", fr.cx), "b1*abs(z1)", fr.cx),
                        "k", fr.cx),
             !.reads = @ \cup {"b1"}]
\* line 518
F518(fr) == [fr EXCEPT !.xi = fr.y1.re, !.eta = fr.y1.im]
\* line 519, the back-side rule for xi
F519(e, fr) ==
  [fr EXCEPT !.y = RSgn(RMul(RMul(e.a1, e.k0, "a1*k0", fr.cx),
                             IF fr.backside THEN RSub(PiR, fr.xi, "pi-xi", fr.cx) ELSE fr.xi,
                             "y", fr.cx),
                        fr.latsign),
             !.reads = @ \cup {"a1", "k0"}]
\* line 520 without lonsign
F520NoLonsign(e, fr) ==
  [fr EXCEPT !.x = RMul(RMul(e.a1, e.k0, "a1*k0", fr.cx), fr.eta, "x", fr.cx)]

\* line 520
F520(e, fr) ==
  [fr EXCEPT !.x = RSgn(RMul(RMul(e.a1, e.k0, "a1*k0", fr.cx), fr.eta, "x", fr.cx),
                        fr.lonsign)]
\* lines 521-522, the back-side rule for gamma
F521(fr) ==
  IF fr.backside THEN [fr EXCEPT !.gamma = RSub(IntR(hd), fr.gamma, "hd-gamma", fr.cx)]
  ELSE fr
\* line 523 without latsign
F523NoLatsign(fr) == [fr EXCEPT !.gamma = RSgn(fr.gamma, fr.lonsign)]

\* line 523
F523(fr) == [fr EXCEPT !.gamma = RSgn(fr.gamma, fr.latsign * fr.lonsign)]
\* lines 525 and 607 left out
F525NoScale(e, fr) == fr

\* lines 524 and 606
F524(fr) == [fr EXCEPT !.gamma = AngNormalize(fr.gamma, "AngNormalize", fr.cx)]
\* lines 525 and 607
F525(e, fr) ==
  [fr EXCEPT !.k = RMul(fr.k, e.k0, "k*k0", fr.cx), !.reads = @ \cup {"k0"}]

\* lines 510-525
ForwardFinish(e, fr, orc) ==
  Goto(F525(e, F524(F523(F521(F520(e, F519(e, F518(F517(e, F516(
       Decide(ClenshawEnd(fr, fr.xip, fr.etap), orc)))))))))), "done")

\* the loop of lines 502-509 run to its end
RECURSIVE ForwardLoopAll(_, _)
ForwardLoopAll(e, fr) ==
  IF fr.n = 0 THEN fr ELSE ForwardLoopAll(e, ForwardClenshawLoop(e, fr))

\* lines 379-525 after the fold
ForwardFrom(e, fr, orc) ==
  ForwardFinish(e, ForwardLoopAll(e, ForwardClenshawInit(e, ForwardGS(e, fr))), orc)

\* the series core from the frame at its entry
ForwardSeries(e, fr, orc) == ForwardFrom(e, ForwardFold(e, fr), orc)

\* a whole call of Forward on the object e with nothing else running
ForwardAlone(e, lon0, lat, lon, orc) ==
  IF e.exact THEN ForwardEntry(e, CallForward(lon0, lat, lon))
  ELSE ForwardSeries(e, ForwardEntry(e, CallForward(lon0, lat, lon)), orc)

(***************************************************************************)
(* Reverse, statement by statement.                                        *)
(***************************************************************************)
\* lines 531-532
ReverseEntry(e, fr) ==
  IF e.exact
  THEN [fr EXCEPT !.pc = "done", !.deleg = TRUE, !.reads = @ \cup {"exact", "tmexact"},
                  !.lat = TMExactReverse(e.tmexact, fr.lon0, fr.x, fr.y).o1,
                  !.lon = TMExactReverse(e.tmexact, fr.lon0, fr.x, fr.y).o2,
                  !.gamma = TMExactReverse(e.tmexact, fr.lon0, fr.x, fr.y).gamma,
                  !.k = TMExactReverse(e.tmexact, fr.lon0, fr.x, fr.y).k]
  ELSE [fr EXCEPT !.pc = "fold", !.reads = @ \cup {"exact"}]

\* lines 537-538
R537(e, fr) ==
  [fr EXCEPT !.xi = RDiv(fr.y, RMul(e.a1, e.k0, "a1*k0", <<>>), "xi", <<>>),
             !.eta = RDiv(fr.x, RMul(e.a1, e.k0, "a1*k0", <<>>), "eta", <<>>),
             !.reads = @ \cup {"a1", "k0"}]
\* lines 540-542
R541(fr) ==
  [fr EXCEPT !.xisign = IF signbit(fr.xi) THEN -1 ELSE 1,
             !.etasign = IF signbit(fr.eta) THEN -1 ELSE 1]
\* lines 543-544; what follows depends on the object and on the folded xi
\* and eta alone, which key the tokens of the call
R543(e, fr) ==
  [fr EXCEPT !.xi = RSgn(fr.xi, fr.xisign), !.eta = RSgn(fr.eta, fr.etasign),
             !.cx = <<2>> \o Enc(e.f) \o Enc(RSgn(fr.xi, fr.xisign))
                      \o Enc(RSgn(fr.eta, fr.etasign))]
\* line 545
R545(fr) == [fr EXCEPT !.backside = RGt(fr.xi, HalfPi)]
\* lines 546-547, the back-side rule on the way in
R546(fr) ==
  IF fr.backside THEN [fr EXCEPT !.xi = RSub(PiR, fr.xi, "pi-xi", fr.cx)] ELSE fr

\* lines 536-547
ReverseFold(e, fr) == Goto(R546(R545(R543(e, R541(R537(e, fr))))), "init")

\* lines 548-556
ReverseClenshawInit(e, fr) ==
  [C497(C496(C494(fr, fr.xi, fr.eta)), e.bet, -1) EXCEPT
     !.pc = "loop", !.reads = IF maxpow % 2 = 1 THEN @ \cup {"bet"} ELSE @]

\* lines 557-564, one iteration
ReverseClenshawLoop(e, fr) ==
  [ClenshawBody(fr, e.bet, -1) EXCEPT !.reads = @ \cup {"bet"}]

\* line 570
R570(fr) == [fr EXCEPT !.gamma = atan2d(fr.z1.im, fr.z1.re, "atan2d(z1)", fr.cx)]
\* line 571
R571(e, fr) ==
  [fr EXCEPT !.k = RDiv(e.b1, abs(fr.z1, "abs(z1)", fr.cx), "b1/abs(z1)", fr.cx),
             !.reads = @ \cup {"b1"}]
\* line 578
R578(fr) == [fr EXCEPT !.xip = fr.y1.re, !.etap = fr.y1.im]
\* line 579
R579(fr) == [fr EXCEPT !.s = sinh(fr.etap, "s", fr.cx)]
\* line 580, with the sign of cos(xip) as the run decides it
R580(fr) ==
  [fr EXCEPT !.c = fmax(Zero(1), Resolve(cos(fr.xip, "cos(xip)", fr.cx), fr.orc.cs),
                        "c", fr.cx)]
\* line 581
R581(fr) == [fr EXCEPT !.r = hypot(fr.s, fr.c, "r", fr.cx)]
\* line 583
R583(fr) == [fr EXCEPT !.lon = atan2d(fr.s, fr.c, "lon", fr.cx)]
\* line 586
R586(fr) == [fr EXCEPT !.sxip = sin(fr.xip, "sxip", fr.cx)]
\* line 587
R587(e, fr) ==
  [fr EXCEPT !.tau = tauf(RDiv(fr.sxip, fr.r, "sxip/r", fr.cx), e.es, fr.cx),
             !.reads = @ \cup {"es"}]
\* line 588
R588(fr) ==
  [fr EXCEPT !.gamma = RAdd(fr.gamma,
                            atan2d(RMul(fr.sxip, tanh(fr.etap, "tanh(etap)", fr.cx),
                                        "sxip*tanh", fr.cx),
                                   fr.c, "gamma'", fr.cx),
                            "gamma", fr.cx)]
\* line 589
R589(fr) == [fr EXCEPT !.lat = atand(fr.tau, "lat", fr.cx)]
\* lines 591-592
R591(e, fr) ==
  [fr EXCEPT !.k = RMul(fr.k,
                        RMul(RMul(sqrt(RAdd(e.e2m,
                                            RDiv(e.e2, RAdd(IntR(1), sq(fr.tau, "tau2", fr.cx),
                                                            "1+tau2", fr.cx),
                                                 "e2/(1+tau2)", fr.cx),
                                            "e2m+", fr.cx), "sqrt(e2m+)", fr.cx),
                                  hypot(IntR(1), fr.tau, "hypot(1,tau)", fr.cx), "k'", fr.cx),
                             fr.r, "k'*r", fr.cx),
                        "k", fr.cx),
             !.reads = @ \cup {"e2m", "e2"}]
\* lines 594-596
R594(e, fr) ==
  [fr EXCEPT !.lat = IntR(qd), !.lon = Zero(1), !.k = RMul(fr.k, e.c, "k*c", fr.cx),
             !.reads = @ \cup {"c"}]

\* lines 582-597
R582(e, fr) ==
  IF RNe(fr.r, Zero(1)) THEN R591(e, R589(R588(R587(e, R586(R583(fr))))))
  ELSE R594(e, fr)

\* line 598
R598(fr) == [fr EXCEPT !.lat = RSgn(fr.lat, fr.xisign)]
\* lines 599-600, the back-side rule for lon
R599(fr) ==
  IF fr.backside THEN [fr EXCEPT !.lon = RSub(IntR(hd), fr.lon, "hd-lon", fr.cx)] ELSE fr
\* line 601
R601(fr) == [fr EXCEPT !.lon = RSgn(fr.lon, fr.etasign)]
\* line 602
R602(fr) ==
  [fr EXCEPT !.lon = AngNormalize(RAdd(fr.lon, fr.lon0, "lon+lon0",
                                       fr.cx \o <<fr.etasign>> \o Enc(fr.lon0)),
                                  "AngNormalize", fr.cx \o <<fr.etasign>> \o Enc(fr.lon0))]
\* line 605
R605(fr) == [fr EXCEPT !.gamma = RSgn(fr.gamma, fr.xisign * fr.etasign)]

\* lines 565-607
ReverseFinish(e, fr, orc) ==
  Goto(F525(e, F524(R605(F521(R602(R601(R599(R598(R582(e, R581(R580(R579(R578(R571(e, R570(
       Decide(ClenshawEnd(fr, fr.xi, fr.eta), orc)))))))))))))))), "done")

\* the loop of lines 557-564 run to its end
RECURSIVE ReverseLoopAll(_, _)
ReverseLoopAll(e, fr) ==
  IF fr.n = 0 THEN fr ELSE ReverseLoopAll(e, ReverseClenshawLoop(e, fr))

\* lines 536-607
ReverseSeries(e, fr, orc) ==
  ReverseFinish(e, ReverseLoopAll(e, ReverseClenshawInit(e, ReverseFold(e, fr))), orc)

\* a whole call of Reverse on the object e with nothing else running
ReverseAlone(e, lon0, x, y, orc) ==
  IF e.exact THEN ReverseEntry(e, CallReverse(lon0, x, y))
  ELSE ReverseSeries(e, ReverseEntry(e, CallReverse(lon0, x, y)), orc)

(***************************************************************************)
(* The state machine.  The library is built with one series order; the     *)
(* object is constructed once; threads then call Forward and Reverse on    *)
(* it, each call advancing by the steps above.                             *)
(***************************************************************************)
NoCfg ==
  [a |-> Unset, made |-> FALSE, f |-> Unset, k0 |-> Unset, extendp |-> FALSE,
   exact |-> FALSE, err |-> ""]

\* the number of threads that call concurrently
Threads == 2

InitWith(T) ==
  /\ maxpow \in Orders
  /\ cfg = NoCfg
  /\ eng = NoEngine
  /\ calls = [t \in T |-> Idle]

\* TransverseMercator(a, f, k0, exact, extendp), lines 49-285
Configure(A, F, K, X, P) ==
  /\ ~cfg.made
  /\ \E a \in A, f \in F, k0 \in K, exact \in X, extendp \in P :
       \E r \in {Construct(a, f, k0, exact, extendp)} :
         /\ cfg' = [a |-> a, made |-> TRUE, f |-> f, k0 |-> k0, extendp |-> extendp,
                    exact |-> exact, err |-> r.err]
         /\ eng' = r.eng
  /\ UNCHANGED <<maxpow, calls>>

\* the singular points of the projection, where etap is infinite
Singular(lon0, lat, lon) ==
  IsZero(lat) /\ REq(fabs(AngDiff(lon0, lon, <<>>)), IntR(qd))

\* a thread calls Forward(lon0, lat, lon, ...)
StartForward(t, L0, LAT, LON) ==
  /\ eng.st = "ok"
  /\ calls[t].pc = "idle"
  /\ \E lon0 \in L0, lat \in LAT, lon \in LON :
       /\ ~Singular(lon0, lat, lon)
       /\ calls' = [calls EXCEPT ![t] = CallForward(lon0, lat, lon)]
  /\ UNCHANGED <<maxpow, cfg, eng>>

\* a thread calls Reverse(lon0, x, y, ...)
StartReverse(t, L0, XS, YS) ==
  /\ eng.st = "ok"
  /\ calls[t].pc = "idle"
  /\ \E lon0 \in L0, x \in XS, y \in YS :
       calls' = [calls EXCEPT ![t] = CallReverse(lon0, x, y)]
  /\ UNCHANGED <<maxpow, cfg, eng>>

At(t, op, pc) == calls[t].op = op /\ calls[t].pc = pc

\* a step that also stores the meridian of its call in the object
GoesWriting(t, fr) ==
  /\ calls' = [calls EXCEPT ![t] = fr]
  /\ eng' = [eng EXCEPT !.k0 = fr.lon0]
  /\ UNCHANGED <<maxpow, cfg>>

\* a step of a call changes the frame of its thread alone: Forward and
\* Reverse are const
Goes(t, fr) == calls' = [calls EXCEPT ![t] = fr] /\ UNCHANGED <<maxpow, cfg, eng>>

StepForwardEntry(t) == At(t, "Forward", "entry") /\ Goes(t, ForwardEntry(eng, calls[t]))
StepForwardFold(t)  == At(t, "Forward", "fold") /\ Goes(t, ForwardFold(eng, calls[t]))
StepForwardGS(t)    == At(t, "Forward", "gs") /\ Goes(t, ForwardGS(eng, calls[t]))
StepForwardClenshawInit(t) ==
  At(t, "Forward", "init") /\ Goes(t, ForwardClenshawInit(eng, calls[t]))
StepForwardClenshawLoop(t) ==
  At(t, "Forward", "loop") /\ calls[t].n # 0 /\ Goes(t, ForwardClenshawLoop(eng, calls[t]))
StepForwardFinish(t, O) ==
  /\ At(t, "Forward", "loop") /\ calls[t].n = 0
  /\ \E orc \in O \cap OrcForward : Goes(t, ForwardFinish(eng, calls[t], orc))

StepReverseEntry(t) == At(t, "Reverse", "entry") /\ Goes(t, ReverseEntry(eng, calls[t]))
StepReverseFold(t)  == At(t, "Reverse", "fold") /\ Goes(t, ReverseFold(eng, calls[t]))
StepReverseClenshawInit(t) ==
  At(t, "Reverse", "init") /\ Goes(t, ReverseClenshawInit(eng, calls[t]))
StepReverseClenshawLoop(t) ==
  At(t, "Reverse", "loop") /\ calls[t].n # 0 /\ Goes(t, ReverseClenshawLoop(eng, calls[t]))
StepReverseFinish(t, O) ==
  /\ At(t, "Reverse", "loop") /\ calls[t].n = 0
  /\ \E orc \in O : Goes(t, ReverseFinish(eng, calls[t], orc))

\* the call returns to its caller
Return(t) == calls[t].pc = "done" /\ Goes(t, Idle)

Step(t, O) ==
  \/ StepForwardEntry(t)
  \/ StepForwardFold(t)
  \/ StepForwardGS(t)
  \/ StepForwardClenshawInit(t)
  \/ StepForwardClenshawLoop(t)
  \/ StepForwardFinish(t, O)
  \/ StepReverseEntry(t)
  \/ StepReverseFold(t)
  \/ StepReverseClenshawInit(t)
  \/ StepReverseClenshawLoop(t)
  \/ StepReverseFinish(t, O)
  \/ Return(t)

(***************************************************************************)
(* The arguments the specifications draw.                                  *)
(***************************************************************************)
WGS84a == IntR(6378137)
UTMk0 == Frac(9996, 10 * 1000)

AllRadii == {NaN, Infinity(1), IntR(-1), Zero(1), IntR(1), WGS84a}
AllFlattenings ==
  {NaN, Infinity(1), Infinity(-1), IntR(2), IntR(1), Zero(1), Frac(2, 3), Frac(1, 2), IntR(-2)}
AllScales == {NaN, Infinity(1), IntR(-1), Zero(1), IntR(1), UTMk0}

\* construction alone, over valid and invalid arguments
InitCfg == InitWith({})
NextCfg == Configure(AllRadii, AllFlattenings, AllScales, BOOLEAN, BOOLEAN)
SpecCfg == InitCfg /\ [][NextCfg]_vars

Meridians == {Zero(1), IntR(30)}
Latitudes == {IntR(-90), IntR(-45), Zero(-1), Zero(1), IntR(45), IntR(90)}
Longitudes == {IntR(-150), IntR(-60), Zero(1), IntR(30), IntR(90), IntR(120), IntR(180)}
Eastings == {IntR(-200 * 1000), Zero(1), IntR(200 * 1000)}
Northings == {IntR(-1000 * 1000), Zero(-1), IntR(1000 * 1000), IntR(15 * 1000 * 1000)}

\* one caller, over a grid of points, on a sphere and on an ellipsoid
Init == InitWith({1})
Next ==
  \/ Configure({WGS84a}, {Zero(1), Frac(2, 3)}, {UTMk0}, BOOLEAN, {FALSE})
  \/ StartForward(1, Meridians, Latitudes, Longitudes)
  \/ StartReverse(1, Meridians, Eastings, Northings)
  \/ Step(1, Orc)
Spec == Init /\ [][Next]_vars

\* concurrent callers of one object, of the series order ConcOrder
ConcOrder == 4
InitConc == InitWith(1..Threads) /\ maxpow = ConcOrder
NextConc ==
  \/ Configure({IntR(1)}, {Frac(2, 3)}, {IntR(1)}, BOOLEAN, {FALSE})
  \/ \E t \in 1..Threads :
       \/ StartForward(t, {Zero(1)}, {IntR(45)}, {IntR(30), IntR(120)})
       \/ StartReverse(t, {Zero(1)}, {IntR(1)}, {IntR(1)})
       \/ Step(t, {[zr |-> 1, zi |-> 1, cs |-> 1], [zr |-> -1, zi |-> -1, cs |-> -1]})
SpecConc == InitConc /\ [][NextConc]_vars

(***************************************************************************)
(* The Clenshaw summation of lines 496-511 and 551-566 on its own: the     *)
(* multiplier a and the coefficients are given, not computed from a point. *)
(***************************************************************************)
\* lines 497-501 of Forward, entered with the multiplier a of line 496
ForwardClenshawAt(e, fr, a) ==
  [C497([fr EXCEPT !.op = "Forward", !.a = a], e.alp, 1) EXCEPT
     !.pc = "loop", !.reads = IF maxpow % 2 = 1 THEN @ \cup {"alp"} ELSE @]

\* lines 552-556 of Reverse, entered with the multiplier a of line 551
ReverseClenshawAt(e, fr, a) ==
  [C497([fr EXCEPT !.op = "Reverse", !.a = a], e.bet, -1) EXCEPT
     !.pc = "loop", !.reads = IF maxpow % 2 = 1 THEN @ \cup {"bet"} ELSE @]

\* lines 510-511 and 565-566: the derivative of the series
ClenshawDerivative(fr) == Goto(C511(C510(fr)), "done")

\* coefficient sequences c[1 .. maxpow]; c[0] is never assigned
CoeffSeqs ==
  {[j \in 0..maxpow |-> IF j = 0 THEN Unset ELSE IF j = i THEN u ELSE v] :
     i \in 1..maxpow, u \in {IntR(1), Frac(-2, 3)}, v \in {Zero(1), Frac(1, 2)}}
  \cup {[j \in 0..maxpow |-> IF j = 0 THEN Unset ELSE Frac((2 * (j % 2) - 1) * j, j + 1)]}

\* multipliers a = 2 * cos(x), x real or complex
Multipliers ==
  {Cplx(IntR(2), Zero(-1)), Cplx(IntR(-2), Zero(-1)), Cplx(Zero(1), Zero(1)),
   Cplx(IntR(1), Zero(1)), Cplx(Frac(1, 2), Frac(-3, 2)), Cplx(IntR(-1), IntR(2))}

\* an object whose _alp and _bet are the sequences alp and bet
SeriesObject(alp, bet) == [NoEngine EXCEPT !.st = "ok", !.alp = alp, !.bet = bet]

ClenshawStart(t, A) ==
  /\ calls[t].pc = "idle"
  /\ \E a \in A :
       \/ Goes(t, ForwardClenshawAt(eng, Idle, a))
       \/ Goes(t, ReverseClenshawAt(eng, Idle, a))

ClenshawFinish(t) ==
  /\ calls[t].pc = "loop" /\ calls[t].n = 0
  /\ Goes(t, ClenshawDerivative(calls[t]))

InitClenshaw ==
  /\ maxpow \in Orders
  /\ cfg = NoCfg
  /\ \E c \in CoeffSeqs : eng = SeriesObject(c, c)
  /\ calls = [t \in {1} |-> Idle]
NextClenshaw ==
  \/ ClenshawStart(1, Multipliers)
  \/ StepForwardClenshawLoop(1)
  \/ StepReverseClenshawLoop(1)
  \/ ClenshawFinish(1)
  \/ Return(1)
SpecClenshaw == InitClenshaw /\ [][NextClenshaw]_vars

(***************************************************************************)
(* The constructor step by step: the loop of lines 276-282 with its locals *)
(* l, o and d in a frame, and, as history, the positions of alpcoeff and   *)
(* betcoeff it has read and the indices of _alp and _bet it has assigned.  *)
(***************************************************************************)
CtorFrame ==
  [d |-> Unset, o |-> 0, l |-> 0, pc |-> "idle", alpread |-> <<>>, betread |-> <<>>,
   assigned |-> <<>>]

\* the positions lo, lo + 1, .. , hi
RECURSIVE Positions(_, _)
Positions(lo, hi) == IF lo > hi THEN <<>> ELSE <<lo>> \o Positions(lo + 1, hi)

\* the positions of the table that lines 278 and 279 read at the offset o
\* with m = maxpow_ - l: polyval(m, coeff + o, _n) reads coeff[o .. o + m],
\* and the divisor is coeff[o + m + 1]
TableReads(m, o) == Positions(o, o + m) \o <<o + m + 1>>

\* the locals of the loop and the object, as CoeffBody takes them
CtorLocals(fr, e) == [d |-> fr.d, e |-> e, o |-> fr.o, l |-> fr.l]

\* lines 49-275 for arguments the checks of lines 66-73 accept: the member
\* initialisers, _b1, _a1, and o = 0, d = _n, l = 1
CoeffEnter(A, F, K) ==
  /\ ~cfg.made
  /\ \E a \in A, f \in F, k0 \in K :
       /\ Construct(a, f, k0, FALSE, FALSE).err = ""
       /\ cfg' = [a |-> a, made |-> TRUE, f |-> f, k0 |-> k0, extendp |-> FALSE,
                  exact |-> FALSE, err |-> ""]
       /\ eng' = CoeffStart(SetA1(SetB1(Members(a, f, k0, FALSE, FALSE)))).e
       /\ calls' = [calls EXCEPT ![1] =
                      [@ EXCEPT !.pc = "loop",
                                !.d = CoeffStart(Members(a, f, k0, FALSE, FALSE)).d,
                                !.o = CoeffStart(Members(a, f, k0, FALSE, FALSE)).o,
                                !.l = CoeffStart(Members(a, f, k0, FALSE, FALSE)).l]]
  /\ UNCHANGED maxpow

\* one iteration of the loop, lines 277-281
CoeffStep ==
  /\ calls[1].pc = "loop" /\ calls[1].l <= maxpow
  /\ eng' = CoeffBody(CtorLocals(calls[1], eng)).e
  /\ calls' = [calls EXCEPT ![1] =
                 [@ EXCEPT !.d = CoeffBody(CtorLocals(calls[1], eng)).d,
                           !.o = CoeffBody(CtorLocals(calls[1], eng)).o,
                           !.l = CoeffBody(CtorLocals(calls[1], eng)).l,
                           !.alpread = @ \o TableReads(maxpow - calls[1].l, calls[1].o),
                           !.betread = @ \o TableReads(maxpow - calls[1].l, calls[1].o),
                           !.assigned = Append(@, calls[1].l)]]
  /\ UNCHANGED <<maxpow, cfg>>

\* the loop ends, and the constructor with it, lines 282-285
CoeffExit ==
  /\ calls[1].pc = "loop" /\ ~(calls[1].l <= maxpow)
  /\ eng' = [eng EXCEPT !.st = "ok"]
  /\ calls' = [calls EXCEPT ![1] = [@ EXCEPT !.pc = "done"]]
  /\ UNCHANGED <<maxpow, cfg>>

InitCoeff ==
  /\ maxpow \in Orders
  /\ cfg = NoCfg
  /\ eng = NoEngine
  /\ calls = [t \in {1} |-> CtorFrame]
NextCoeff ==
  \/ CoeffEnter({IntR(1), WGS84a}, {Zero(1), Frac(2, 3), Frac(1, 2), IntR(-2)}, {IntR(1), UTMk0})
  \/ CoeffStep
  \/ CoeffExit
SpecCoeff == InitCoeff /\ [][NextCoeff]_vars

(***************************************************************************)
(* Properties.                                                             *)
(***************************************************************************)
\* equal as real numbers: +0 and -0 are equal
SameReal(x, y) == x = y \/ REq(x, y)
SameOutputs(p, q) == \A i \in 1..4 : SameReal(p[i], q[i])

\* a call of Forward that has returned from the series core
SeriesForward(fr) == fr.op = "Forward" /\ fr.pc = "done" /\ ~fr.deleg
\* the longitude difference of the call
Difference(fr) == AngDiff(fr.args[1], fr.args[3], <<>>)

\* the arguments the constructor call was made with are among those C1 lists
C1_Invalid ==
  \/ ~isfinite(cfg.a) \/ ~RGt(cfg.a, Zero(1))
  \/ ~isfinite(cfg.f) \/ RGt(cfg.f, IntR(1)) \/ REq(cfg.f, IntR(1))
  \/ ~isfinite(cfg.k0) \/ ~RGt(cfg.k0, Zero(1))
  \/ cfg.extendp

\* C1: a constructor call with exact = false throws if and only if the radius
\* is not finite or not > 0, or the flattening is not finite or is >= 1, or
\* the scale is not finite or not > 0, or extendp is set; otherwise it yields
\* an object whose _b1, _a1, _alp[1..maxpow_] and _bet[1..maxpow_] are all
\* assigned; a call that throws yields no object.
C1_ConfigureFailsIff ==
  (cfg.made /\ ~cfg.exact) =>
    /\ (cfg.err # "") <=> C1_Invalid
    /\ cfg.err = "" =>
         /\ eng.st = "ok"
         /\ eng.b1 # Unset /\ eng.a1 # Unset
         /\ \A j \in 1..maxpow : eng.alp[j] # Unset /\ eng.bet[j] # Unset
    /\ cfg.err # "" => eng = [NoEngine EXCEPT !.st = "failed"]

\* the constructor has thrown on extendp alone
C1_Witness ==
  /\ cfg.made /\ ~cfg.exact /\ cfg.extendp /\ cfg.err # ""
  /\ cfg.a = WGS84a /\ cfg.f = Frac(1, 2) /\ cfg.k0 = UTMk0

\* what _tmexact returns for the arguments of the call fr, on the object the
\* constructor arguments make
C2_Exact(fr) ==
  IF fr.op = "Forward"
  THEN TMExactForward(TMExactMake(cfg.a, cfg.f, cfg.k0, cfg.extendp),
                      fr.args[1], fr.args[2], fr.args[3])
  ELSE TMExactReverse(TMExactMake(cfg.a, cfg.f, cfg.k0, cfg.extendp),
                      fr.args[1], fr.args[2], fr.args[3])

C2_Call(fr) ==
  IF eng.exact
  THEN /\ fr.pc \in {"entry", "done"}
       /\ fr.reads \subseteq {"exact", "tmexact"}
       /\ fr.idx = <<>>
       /\ fr.pc = "done" =>
            /\ fr.deleg
            /\ Outputs(fr) = <<C2_Exact(fr).o1, C2_Exact(fr).o2, C2_Exact(fr).gamma,
                               C2_Exact(fr).k>>
  ELSE ~fr.deleg /\ "tmexact" \notin fr.reads

\* C2: _exact is what the constructor was given, at every moment after it;
\* on an object made with exact set, every call of Forward and of Reverse
\* returns what _tmexact returns for the arguments of the call, executes no
\* step of the series and reads none of _b1, _a1, _alp, _bet, which the
\* constructor has left unassigned; on an object made without it no call
\* reaches _tmexact.
C2_Delegation ==
  eng.st = "ok" =>
    /\ eng.exact = cfg.exact
    /\ eng.exact =>
         /\ eng.b1 = Unset /\ eng.a1 = Unset
         /\ \A j \in 0..maxpow : eng.alp[j] = Unset /\ eng.bet[j] = Unset
    /\ \A t \in DOMAIN calls : calls[t].op # "none" => C2_Call(calls[t])

\* a call of Reverse on an object made with exact set has returned
C2_Witness ==
  \E t \in DOMAIN calls :
    eng.exact /\ calls[t].op = "Reverse" /\ calls[t].pc = "done" /\ calls[t].deleg

\* the call of the frame fr, run alone on the object
C3_Alone(fr) ==
  IF fr.op = "Forward"
  THEN ForwardAlone(eng, fr.args[1], fr.args[2], fr.args[3], fr.orc)
  ELSE ReverseAlone(eng, fr.args[1], fr.args[2], fr.args[3], fr.orc)

\* the thread t returns to its caller in this step, with the outputs its
\* call returns when it runs alone
C3_Returns(t) ==
  (calls[t].pc = "done" /\ calls'[t].pc = "idle") =>
    Outputs(calls[t]) = Outputs(C3_Alone(calls[t]))

\* C3: once the object is constructed, no step of any call of Forward or
\* Reverse, in any interleaving of the calls of the threads, writes a member
\* of the object, and every call returns the outputs it returns when it runs
\* alone on its arguments (with the same outcome of the sign tests).
C3_Concurrent ==
  [][/\ eng.st = "ok" => eng' = eng
     /\ \A t \in DOMAIN calls : C3_Returns(t)]_vars

\* a call of Forward is about to return while a call of Reverse, begun before
\* it ended, is in its loop
C3_Witness ==
  /\ ~eng.exact
  /\ \E t, u \in DOMAIN calls :
       /\ calls[t].op = "Forward" /\ calls[t].pc = "done"
       /\ calls[u].op = "Reverse" /\ calls[u].pc = "loop" /\ calls[u].n # maxpow

\* Forward(lon0, -lat, lon) for the call fr of Forward(lon0, lat, lon)
C5_Mirror(fr) == ForwardAlone(eng, fr.args[1], RNeg(fr.args[2]), fr.args[3], fr.orc)

\* the outputs q against the outputs p: y and gamma negated, x and k the same
C5_Negated(p, q) ==
  /\ SameReal(q[1], p[1]) /\ SameReal(q[2], RNeg(p[2]))
  /\ SameReal(q[3], RNeg(p[3])) /\ SameReal(q[4], p[4])

\* C5 as stated: for every lon0, every lat in [-90, 90], +0 and -0 included,
\* and every lon, the back side included, Forward(lon0, -lat, lon) returns y
\* and gamma negated and x and k unchanged.
C5_Original ==
  \A t \in DOMAIN calls :
    SeriesForward(calls[t]) => C5_Negated(Outputs(calls[t]), Outputs(C5_Mirror(calls[t])))

\* C5, amended: away from the points where the projection is singular,
\* Forward(lon0, -lat, lon) returns y and gamma negated and x and k unchanged,
\* except for lat = +0 or -0 on the back side: there latsign is -1 for both,
\* and both calls return the same outputs, with y = -pi * a1 * k0.
C5_LatitudeMirror ==
  \A t \in DOMAIN calls :
    SeriesForward(calls[t]) =>
      IF IsZero(calls[t].args[2]) /\ calls[t].backside
      THEN /\ SameOutputs(Outputs(calls[t]), Outputs(C5_Mirror(calls[t])))
           /\ SameReal(calls[t].y,
                       RNeg(RMul(RMul(eng.a1, eng.k0, "a1*k0", <<>>), PiR, "y", <<>>)))
      ELSE C5_Negated(Outputs(calls[t]), Outputs(C5_Mirror(calls[t])))

\* a call at lat = -45 on the back side of an ellipsoid has returned
C5_Witness ==
  \E t \in DOMAIN calls :
    /\ SeriesForward(calls[t]) /\ calls[t].backside
    /\ calls[t].args[2] = IntR(-45) /\ ~IsZero(eng.f)

\* an angle and its negative as directions: -180 and 180 are one direction.
\* (On the central meridian the mirror image of a point is the point, and
\* gamma is 0 or, were z1.real() negative there, -180 or 180.)
NegatedAngle(g, h) ==
  SameReal(g, RNeg(h)) \/ (REq(fabs(g), IntR(hd)) /\ REq(fabs(h), IntR(hd)))

\* the outputs q against the outputs p: x and gamma negated, y and k the same
C6_Negated(p, q) ==
  /\ SameReal(q[1], RNeg(p[1])) /\ SameReal(q[2], p[2])
  /\ NegatedAngle(q[3], p[3]) /\ SameReal(q[4], p[4])

C6_MirroredLon(fr) ==
  RSub(RMul(IntR(2), fr.args[1], "2*lon0", <<>>), fr.args[3], "2*lon0-lon", <<>>)

RECURSIVE SeriesDerivative(_, _, _)
SeriesDerivative(e, m, s) ==
  IF m = 0 THEN IntR(1)
  ELSE RAdd(SeriesDerivative(e, m - 1, s),
            RMul(IntR(2 * m * (IF m % 2 = 1 THEN s ELSE 1)), e.alp[m], "2j*alp", <<m>>),
            "1+sum", <<m>>)

AtPole(fr) == SeriesForward(fr) /\ REq(fabs(fr.args[2]), IntR(qd))

C7_XY(fr) ==
  /\ SameReal(fr.x, Zero(1))
  /\ SameReal(fr.y, RSgn(RMul(RMul(eng.a1, eng.k0, "a1*k0", <<>>), HalfPi, "y", <<>>),
                         IF signbit(fr.args[2]) THEN -1 ELSE 1))

AtOrigin(fr) ==
  SeriesForward(fr) /\ IsZero(fr.args[2]) /\ REq(fr.args[3], fr.args[1])

C8_XYGamma(fr) ==
  SameReal(fr.x, Zero(1)) /\ SameReal(fr.y, Zero(1)) /\ SameReal(fr.gamma, Zero(1))

\* C8 as stated: for every ellipsoid and every lon0, Forward(lon0, 0, lon0)
\* yields x = 0, y = 0, gamma = 0 and k = k0.
C8_Original ==
  \A t \in DOMAIN calls :
    AtOrigin(calls[t]) => C8_XYGamma(calls[t]) /\ SameReal(calls[t].k, eng.k0)

\* C8, amended: for every ellipsoid and every lon0, Forward(lon0, 0, lon0)
\* yields x = 0, y = 0, gamma = 0 and
\* k = k0 * b1 * (1 + sum of 2 * j * alp[j], j = 1 .. order), which is k0 on
\* a sphere.
C8_Origin ==
  \A t \in DOMAIN calls :
    AtOrigin(calls[t]) =>
      /\ C8_XYGamma(calls[t])
      /\ SameReal(calls[t].k,
                  RMul(eng.k0, RMul(eng.b1, SeriesDerivative(eng, maxpow, 1), "b1*sum", <<>>),
                       "k.origin", <<>>))
      /\ IsZero(eng.f) => SameReal(calls[t].k, eng.k0)

\* a call at the origin of an ellipsoid, with lon0 = 30, has returned
C8_Witness ==
  \E t \in DOMAIN calls :
    AtOrigin(calls[t]) /\ calls[t].args[1] = IntR(30) /\ ~IsZero(eng.f)

\* C9: on a sphere (f = 0, so n = 0), for each order 4 .. 8, the constructor
\* leaves b1 = 1 and a1 = a, the constant term of the b1 polynomial being
\* the divisor of its table, and alp[j] = 0 and bet[j] = 0 for j = 1 .. order.
C9_Sphere ==
  (cfg.made /\ ~cfg.exact /\ eng.st = "ok" /\ IsZero(cfg.f)) =>
    /\ IsZero(eng.n)
    /\ SameReal(eng.b1, IntR(1))
    /\ SameReal(eng.a1, cfg.a)
    /\ b1coeff(maxpow)[(maxpow \div 2) + 1] = b1coeff(maxpow)[(maxpow \div 2) + 2]
    /\ \A j \in 1..maxpow :
         SameReal(eng.alp[j], Zero(1)) /\ SameReal(eng.bet[j], Zero(1))

\* a sphere of the WGS84 radius has been constructed at order 7
C9_Witness ==
  /\ cfg.made /\ ~cfg.exact /\ eng.st = "ok" /\ IsZero(cfg.f)
  /\ maxpow = 7 /\ cfg.a = WGS84a

\* the call fr of Forward with the back-side rule of lines 374-378 and
\* 519-522 applied whatever line 373 finds
C10_Back(fr) ==
  ForwardFrom(eng,
              F374([ForwardSigns(ForwardEntry(eng, CallForward(fr.args[1], fr.args[2],
                                                               fr.args[3])))
                      EXCEPT !.backside = TRUE]),
              fr.orc)

\* C10: a call of Forward is on the back side exactly when the absolute
\* longitude difference is > 90; at a difference of exactly 90, for lat in
\* (0, 90), it is on the front side, and the back-side rule (lon replaced by
\* 180 - lon, xi by pi - xi, gamma by 180 - gamma) yields the same x, y,
\* gamma and k as the front-side computation.
C10_BackSide ==
  \A t \in DOMAIN calls :
    SeriesForward(calls[t]) =>
      /\ calls[t].backside <=> RGt(fabs(Difference(calls[t])), IntR(qd))
      /\ (/\ REq(fabs(Difference(calls[t])), IntR(qd))
          /\ RGt(calls[t].args[2], Zero(1)) /\ RLt(calls[t].args[2], IntR(qd))) =>
           /\ ~calls[t].backside
           /\ C10_Back(calls[t]).backside
           /\ SameOutputs(Outputs(calls[t]), Outputs(C10_Back(calls[t])))

\* a call at lat = 45 and a longitude difference of exactly -90, on an
\* ellipsoid, has returned
C10_Witness ==
  \E t \in DOMAIN calls :
    /\ SeriesForward(calls[t]) /\ calls[t].args[2] = IntR(45)
    /\ Difference(calls[t]) = IntR(-qd) /\ ~IsZero(eng.f)

\* the sum over j = i .. m of c[j] * U(j - 1), added to acc, where u is
\* U(i - 1) and up is U(i - 2): U(0) = 1, U(1) = a, U(j + 1) = a * U(j) - U(j - 1)
RECURSIVE SumUFrom(_, _, _, _, _, _, _)
SumUFrom(c, a, i, m, u, up, acc) ==
  IF i > m THEN acc
  ELSE SumUFrom(c, a, i + 1, m, CSub(CMul(a, u, "aU", <<i>>), up, "U", <<i>>), u,
                CAdd(acc, CMul(CReal(c[i]), u, "cU", <<i>>), "sumU", <<i>>))

SumU(c, a, m) == SumUFrom(c, a, 1, m, CReal(IntR(1)), CZero, CZero)

\* the sum over j = i .. m of 2 * j * c[j] * T(j), added to acc, where t is
\* T(i) and tp is T(i - 1): T(0) = 1, T(1) = a/2, T(j + 1) = a * T(j) - T(j - 1)
RECURSIVE SumTFrom(_, _, _, _, _, _, _)
SumTFrom(c, a, i, m, t, tp, acc) ==
  IF i > m THEN acc
  ELSE SumTFrom(c, a, i + 1, m, CSub(CMul(a, t, "aT", <<i>>), tp, "T", <<i>>), t,
                CAdd(acc, CMul(CReal(RMul(IntR(2 * i), c[i], "2jc", <<i>>)), t, "cT", <<i>>),
                     "sumT", <<i>>))

\* 1 + the sum over j = 1 .. m of 2 * j * c[j] * T(j)
SumT(c, a, m) ==
  SumTFrom(c, a, 1, m, CDivR(a, IntR(2), "a/2", <<>>), CReal(IntR(1)), CReal(IntR(1)))

SameComplex(p, q) == SameReal(p.re, q.re) /\ SameReal(p.im, q.im)

\* the coefficients the call of the frame fr sums: _alp in Forward, -_bet in
\* Reverse
C11_Coeff(fr) ==
  [j \in 1..maxpow |-> IF fr.op = "Forward" THEN eng.alp[j] ELSE RNeg(eng.bet[j])]

\* C11: for each order 4 .. 8, each coefficient sequence and each multiplier
\* a, when the loop has ended y0 is the sum of c[j] * U(j - 1), j = 1 ..
\* order, and after lines 510-511 z1 = 1 - z1 + (a/2) * z0 is 1 + the sum of
\* 2 * j * c[j] * T(j), with c = _alp in Forward and c = -_bet in Reverse.
C11_Clenshaw ==
  \A t \in DOMAIN calls :
    /\ (calls[t].pc = "loop" /\ calls[t].n = 0) =>
         SameComplex(calls[t].y0, SumU(C11_Coeff(calls[t]), calls[t].a, maxpow))
    /\ calls[t].pc = "done" =>
         /\ SameComplex(calls[t].y0,
                        SumU(C11_Coeff(calls[t]),
                             CAdd(calls[t].a, calls[t].a, "2a", <<>>), maxpow))
         /\ SameComplex(calls[t].z1,
                        SumT(C11_Coeff(calls[t]),
                             CAdd(calls[t].a, calls[t].a, "2a", <<>>), maxpow))

\* a call of Reverse at order 7 has summed the series at a complex multiplier
C11_Witness ==
  \E t \in DOMAIN calls :
    /\ calls[t].op = "Reverse" /\ calls[t].pc = "done" /\ maxpow = 7
    /\ calls[t].a = Cplx(Frac(1, 4), Frac(-3, 4))
    /\ eng.bet[3] = Frac(-2, 3) /\ eng.bet[1] = Frac(1, 2)

\* the indices hi, hi - 1, .. , lo, each twice
RECURSIVE ReadsDown(_, _)
ReadsDown(hi, lo) == IF hi < lo THEN <<>> ELSE <<hi, hi>> \o ReadsDown(hi - 1, lo)

\* the indices hi, hi - 1, .. , lo, each once
RECURSIVE OnceDown(_, _)
OnceDown(hi, lo) == IF hi < lo THEN <<>> ELSE <<hi>> \o OnceDown(hi - 1, lo)

\* a call that runs the series is in its loop, or past it
InLoop(fr) == fr.pc = "loop"
PastLoop(fr) == fr.pc = "done" /\ ~fr.deleg

\* the iterations of the loop the call has run: each reads two indices
\* twice, after the two reads of the initialisation when the order is odd
Iterations(fr) == (Len(fr.idx) - 2 * (maxpow % 2)) \div 4

\* C12 as stated: the loop ends after floor(order/2) iterations with n = 0,
\* and the call has read the indices order, order - 1, .. , 1 of _alp (or
\* _bet), each exactly once, in strictly descending order.
C12_Original ==
  \A t \in DOMAIN calls :
    PastLoop(calls[t]) =>
      /\ calls[t].n = 0
      /\ calls[t].idx = OnceDown(maxpow, 1)

\* C12, amended: for each order 4 .. 8 and every input, the loop of Forward
\* and of Reverse ends after exactly floor(order/2) iterations with n = 0;
\* n is even and within 0 .. order throughout; the call reads the indices
\* order, order - 1, .. , 1 in descending order, each in one statement pair
\* and there twice (once for the series, once for its derivative), an odd
\* order's highest index in the initialisation; it reads neither index 0 nor
\* an index above order.
C12_Loop ==
  \A t \in DOMAIN calls :
    /\ InLoop(calls[t]) =>
         /\ calls[t].n \in 0..maxpow /\ calls[t].n % 2 = 0
         /\ calls[t].idx = ReadsDown(maxpow, calls[t].n + 1)
         /\ Iterations(calls[t]) = (maxpow \div 2) - (calls[t].n \div 2)
    /\ PastLoop(calls[t]) =>
         /\ calls[t].n = 0
         /\ calls[t].idx = ReadsDown(maxpow, 1)
         /\ Iterations(calls[t]) = maxpow \div 2
    /\ \A i \in 1..Len(calls[t].idx) : calls[t].idx[i] \in 1..maxpow

\* a call of Reverse at order 5 has returned from the series
C12_Witness ==
  \E t \in DOMAIN calls :
    PastLoop(calls[t]) /\ calls[t].op = "Reverse" /\ maxpow = 5

\* the size of the packed tables alpcoeff and betcoeff
TableSize == (maxpow * (maxpow + 3)) \div 2

\* the sum over i = 1 .. l - 1 of (maxpow - i + 2)
RECURSIVE OffsetAt(_)
OffsetAt(l) == IF l <= 1 THEN 0 ELSE OffsetAt(l - 1) + (maxpow - (l - 1) + 2)

\* C13: for each order 4 .. 8, at step l of the loop o is the sum over
\* i = 1 .. l - 1 of (order - i + 2); the polynomial is read at the positions
\* o .. o + (order - l) and the divisor at o + (order - l) + 1, inside the
\* table of size order * (order + 3) / 2; the positions read so far are
\* 0 .. o - 1, each once; the loop ends with o = order * (order + 3) / 2 and
\* every position read once; _alp[1 .. order] and _bet[1 .. order], and no
\* other entry, are assigned, each once.
C13_TableWalk ==
  calls[1].pc \in {"loop", "done"} =>
    /\ Len(alpcoeff(maxpow)) = TableSize /\ Len(betcoeff(maxpow)) = TableSize
    /\ calls[1].l \in 1..(maxpow + 1)
    /\ calls[1].o = OffsetAt(calls[1].l)
    /\ calls[1].alpread = Positions(0, calls[1].o - 1)
    /\ calls[1].betread = Positions(0, calls[1].o - 1)
    /\ calls[1].assigned = Positions(1, calls[1].l - 1)
    /\ \A j \in 0..maxpow :
         /\ (eng.alp[j] # Unset) <=> (j \in 1..(calls[1].l - 1))
         /\ (eng.bet[j] # Unset) <=> (j \in 1..(calls[1].l - 1))
    /\ calls[1].l <= maxpow =>
         /\ TableReads(maxpow - calls[1].l, calls[1].o) =
              Positions(calls[1].o, calls[1].o + (maxpow - calls[1].l) + 1)
         /\ calls[1].o + (maxpow - calls[1].l) + 1 <= TableSize - 1
    /\ calls[1].pc = "done" =>
         /\ calls[1].l = maxpow + 1
         /\ calls[1].o = TableSize
         /\ calls[1].alpread = Positions(0, TableSize - 1)
         /\ eng = Construct(cfg.a, cfg.f, cfg.k0, FALSE, FALSE).eng

\* the constructor has ended at order 8 on an ellipsoid
C13_Witness ==
  calls[1].pc = "done" /\ maxpow = 8 /\ cfg.f = Frac(2, 3) /\ eng.st = "ok"

====
